---------------------------- MODULE Spec2Model ----------------------------
(***************************************************************************)
(* Model of the offline-first task manager's two stateful subsystems:      *)
(*   - the session service (src/unnamed/part_001, sessionService.js): the  *)
(*     per-user cap on concurrently active sessions;                       *)
(*   - the sync service (src/src/server/services/autoUpdateService.js,     *)
(*     second half: syncService.js): push/pull between SQLite and MSSQL;   *)
(*   - the auth controller (src/src/server/controllers/authController.js,  *)
(*     second half): the signed-in user and the device's current session.  *)
(* Every async function is a process whose steps are its awaited store     *)
(* calls: one action executes the pending store call and runs the code up  *)
(* to the next await.  Values computed while issuing a call (new Date())   *)
(* are those of the previous step.                                         *)
(***************************************************************************)
EXTENDS Integers, Sequences, FiniteSets, TLC

\* ------------------------------------------------------------------ bounds
SessMaxTime == 2  \* the clock runs 0..SessMaxTime in the session specifications
MaxSid == 3       \* session rows ever created
SyncMaxTime == 2  \* the clock runs 0..SyncMaxTime in the sync specifications

\* --------------------------------------------------------------- constants
MAX_CONCURRENT_SESSIONS == 1

Users == {"u1", "u2"}
Devices == {"d1", "d2", "d3"}
Callers == {"c1", "c2"}
Mssql == "mssql"
Stores == Devices \cup {Mssql}
NoSid == 0
Host == "d1"                   \* the installation whose sync service is modelled
Uuids == {"i1", "i2", "i3"}          \* Item.uuid values (UUIDV4)
SyncProcs == {"timer", "user"} \* who invokes the sync service
Never == -1                    \* syncedAt: null
Handlers == {"h1", "h2"}       \* concurrent invocations of authController
NoUser == "null"               \* authenticatedUser / cachedAccount: null

VARIABLES
    now,             \* the wall clock read by new Date()
    mssqlConnected,  \* per installation: database/index.js mssqlConnected
    monitor,         \* the host's internet connectivity and main.js lastOnlineStatus
    sessions,        \* store -> set of Session rows (sqlite of a device, or mssql)
    nextSid,         \* next fresh sessionId (crypto.randomBytes: never repeats)
    call,            \* caller -> the session-service call it has in flight
    localItems,      \* the items table of the host's SQLite database
    remoteItems,     \* the items table of the MSSQL database
    issued,          \* Item.uuid values generated so far (UUIDV4: never repeats)
    isSyncing,       \* syncService: let isSyncing
    sync,            \* invoker -> the sync-service call it has in flight
    autoUpdatedAt,   \* timestamps: true: does the ORM stamp updatedAt with the
                     \* time of the write even when the caller passes a value?
    auth,            \* authController's module state, the MSAL token cache and
                     \* the credential manager of the host
    handler          \* invoker -> the authController call it has in flight

sessVars == <<sessions, nextSid, call>>
envVars == <<now, mssqlConnected, monitor>>
itemVars == <<localItems, remoteItems, issued>>
syncVars == <<localItems, remoteItems, issued, isSyncing, sync, autoUpdatedAt>>
authVars == <<auth, handler>>
vars == <<now, mssqlConnected, monitor, sessions, nextSid, call,
          localItems, remoteItems, issued, isSyncing, sync, autoUpdatedAt, auth, handler>>

\* authController lines 138-143 after construction, with an empty MSAL token
\* cache (accounts) and nothing in the credential manager (credentials).
SignedOut ==
    [authenticatedUser |-> NoUser, cachedAccount |-> NoUser, currentSessionId |-> NoSid,
     pkceVerifier |-> FALSE, accounts |-> {}, credentials |-> FALSE]

\* main.js line 35 after construction (lastOnlineStatus = null), the host
\* having internet connectivity.
NotObserved == [isOnline |-> TRUE, lastOnlineStatus |-> "null"]

\* op: the authController function invoked; pc: the await it is suspended on;
\* result: what it returned or sent to the renderer; user: the cachedAccount
\* a logout found when it was invoked (recorded per call).
IdleHandler ==
    [op |-> "none", pc |-> "done", result |-> "none", accounts |-> {}, expiresOn |-> 0,
     user |-> NoUser]

\* ------------------------------------------------------------ session rows
Min(a, b) == IF a < b THEN a ELSE b

\* getSessionModel: MSSQL when this installation is connected, else its SQLite.
GetSessionModel(d) == IF mssqlConnected[d] THEN Mssql ELSE d

\* where: { userId, isActive: true, expiresAt: { [Op.gt]: t } }
ActiveUnexpired(S, u, t) ==
    {r \in S : r.userId = u /\ r.isActive /\ r.expiresAt > t}

\* cleanupExpiredSessions: destroy where expiresAt < t OR isActive = false.
CleanupExpiredSessions(S, t) ==
    {r \in S : ~(r.expiresAt < t \/ ~r.isActive)}

\* All orderings of a set of rows by createdAt ascending (ties in any order).
OrderByCreatedAtAsc(A) ==
    {f \in [1..Cardinality(A) -> A] :
        /\ \A i, j \in 1..Cardinality(A) : i # j => f[i] # f[j]
        /\ \A i, j \in 1..Cardinality(A) : i < j => f[i].createdAt <= f[j].createdAt}

\* findAll({ where active unexpired, order createdAt ASC, limit n }), mapped to
\* { sessionId, createdAt } as canCreateSession returns it.
OldestSessionsC24Mutant(S, u, t, n) ==
    {[i \in 1..Min(n, Len(f)) |-> [sessionId |-> f[i].sessionId, createdAt |-> f[i].createdAt]] :
        f \in {g \in [1..Cardinality(ActiveUnexpired(S, u, t)) -> ActiveUnexpired(S, u, t)] :
                    \A i, j \in DOMAIN g : i # j => g[i] # g[j]}}
OldestSessions(S, u, t, n) ==
    {[i \in 1..Min(n, Len(f)) |-> [sessionId |-> f[i].sessionId, createdAt |-> f[i].createdAt]] :
        f \in OrderByCreatedAtAsc(ActiveUnexpired(S, u, t))}

\* activeCount < MAX_CONCURRENT_SESSIONS
AllowedC1Mutant(activeCount) == activeCount <= MAX_CONCURRENT_SESSIONS
Allowed(activeCount) == activeCount < MAX_CONCURRENT_SESSIONS

\* limit: activeCount - MAX_CONCURRENT_SESSIONS + 1
EvictionLimitC4Mutant(activeCount) == activeCount - MAX_CONCURRENT_SESSIONS
EvictionLimit(activeCount) == activeCount - MAX_CONCURRENT_SESSIONS + 1

\* Session.update({ isActive: false }, { where: { sessionId } })
DeactivateC5Mutant(S, sid) == S
Deactivate(S, sid) ==
    {IF r.sessionId = sid THEN [r EXCEPT !.isActive = FALSE] ELSE r : r \in S}

\* existingSession.update({ expiresAt, lastActiveAt }): by primary key; a row
\* deleted meanwhile is not recreated.
UpdateExisting(S, sid, e, t) ==
    {IF r.sessionId = sid THEN [r EXCEPT !.expiresAt = e, !.lastActiveAt = t] ELSE r : r \in S}

\* Session.create({...}): isActive defaults to true, createdAt is the issue time.
NewSession(sid, u, d, e, t) ==
    [sessionId |-> sid, userId |-> u, deviceId |-> d, createdAt |-> t,
     lastActiveAt |-> t, expiresAt |-> e, isActive |-> TRUE]

\* validateSession lines 225-231: the rows Session.findOne can return, the
\* query having been issued at time t.
ValidSessionsC17Mutant(S, sid, t) == {r \in S : r.sessionId = sid /\ r.isActive}
ValidSessions(S, sid, t) ==
    {r \in S : r.sessionId = sid /\ r.isActive /\ r.expiresAt > t}

\* The where clause of endSession (sessionId), endCurrentDeviceSession
\* (userId, deviceId: getDeviceId()) and endAllSessions (userId).
EndOps == {"endSession", "endCurrentDeviceSession", "endAllSessions"}
EndMatches(rec, r) ==
    IF rec.op = "endSession" THEN r.sessionId = rec.sid
    ELSE IF rec.op = "endCurrentDeviceSession"
         THEN r.userId = rec.userId /\ r.deviceId = rec.dev
         ELSE r.userId = rec.userId

\* Session.update({ isActive: false }, { where }) of those three.
DeactivateWhere(S, rec) ==
    {IF EndMatches(rec, r) THEN [r EXCEPT !.isActive = FALSE] ELSE r : r \in S}

\* return result[0] > 0: the number of rows the where clause matched.
EndResult(S, rec) ==
    IF \E r \in S : EndMatches(rec, r) THEN "ended" ELSE "not_found"

\* session.update({ lastActiveAt }) in validateSession.
TouchC30Mutant(S, sid, t) ==
    {IF r.sessionId = sid THEN [r EXCEPT !.lastActiveAt = t, !.expiresAt = t + 1] ELSE r : r \in S}
Touch(S, sid, t) ==
    {IF r.sessionId = sid THEN [r EXCEPT !.lastActiveAt = t] ELSE r : r \in S}

\* ---------------------------------------------------------- call records
IdleCall ==
    [op |-> "none", pc |-> "done", dev |-> "d1", userId |-> "u1", expiresAt |-> 0,
     forceCreate |-> FALSE, model |-> Mssql, model2 |-> Mssql, t |-> 0,
     activeCount |-> 0, allowed |-> FALSE, oldest |-> <<>>, k |-> 0,
     sid |-> NoSid, result |-> "none", changed |-> {}, evicted |-> {}, held |-> NoSid,
     ticked |-> FALSE]

Idle(c) == call[c].op = "none"

\* What a step did to the sessions that count against the cap (recorded per
\* call): the rows, active and unexpired before or after the step, that the step
\* created, changed or removed; and the rows it turned from active to inactive.
ChangedActive(S, S2) ==
    {r.sessionId : r \in {x \in (S \ S2) \cup (S2 \ S) : x.isActive /\ x.expiresAt > now}}
DeactivatedBy(S, S2) ==
    {r.sessionId : r \in {x \in S : x.isActive /\
                              \E y \in S2 : y.sessionId = x.sessionId /\ ~y.isActive}}

\* The store a call writes to becomes S2; the call's record notes what that did.
Write(c, S2) == [sessions EXCEPT ![call[c].model] = S2]
Noted(c, S2, rec) ==
    [rec EXCEPT !.changed = @ \cup ChangedActive(sessions[call[c].model], S2),
                !.evicted = @ \cup DeactivatedBy(sessions[call[c].model], S2)]

\* The active, unexpired session the device holds for the user when a call starts
\* (NoSid when it holds none); recorded per call.
HeldBy(S, u, d) ==
    LET mine == {r \in ActiveUnexpired(S, u, now) : r.deviceId = d}
    IN  IF mine = {} THEN NoSid ELSE (CHOOSE r \in mine : TRUE).sessionId

\* createSession calls that still may insert a row.
PendingCreates == {c \in Callers : call[c].op = "createSession" /\ call[c].pc # "done"}

\* ------------------------------------------------------------------ actions
\* createSession(userId, userEmail, expiresAt, forceCreate), lines 154-160:
\* Session = getSessionModel(); canCreateSession -> getActiveSessionCount ->
\* cleanupExpiredSessions issues Session.destroy.
CreateSessionCall(d, u, e, f) ==
    [IdleCall EXCEPT !.op = "createSession", !.pc = "cleanup", !.dev = d,
        !.userId = u, !.expiresAt = e, !.forceCreate = f,
        !.model = GetSessionModel(d), !.t = now,
        !.held = HeldBy(sessions[GetSessionModel(d)], u, d)]

StartCreateSession(c, d, u, e, f) ==
    /\ Idle(c)
    /\ nextSid + Cardinality(PendingCreates) <= MaxSid
    /\ call' = [call EXCEPT ![c] = CreateSessionCall(d, u, e, f)]
    /\ UNCHANGED <<sessions, nextSid, envVars, syncVars, authVars>>

\* canCreateSession(userId) called on its own (session.canCreate).
CanCreateSessionCall(d, u) ==
    [IdleCall EXCEPT !.op = "canCreateSession", !.pc = "cleanup", !.dev = d,
        !.userId = u, !.model = GetSessionModel(d), !.t = now]

StartCanCreateSession(c, d, u) ==
    /\ Idle(c)
    /\ call' = [call EXCEPT ![c] = CanCreateSessionCall(d, u)]
    /\ UNCHANGED <<sessions, nextSid, envVars, syncVars, authVars>>

\* await Session.destroy(...) in cleanupExpiredSessions; then Session.count is issued.
Cleanup(c) ==
    /\ call[c].pc = "cleanup"
    /\ LET S2 == CleanupExpiredSessions(sessions[call[c].model], call[c].t)
       IN  /\ sessions' = Write(c, S2)
           /\ call' = [call EXCEPT ![c] = Noted(c, S2, [@ EXCEPT !.pc = "count", !.t = now])]
    /\ UNCHANGED <<nextSid, envVars, syncVars, authVars>>

\* await Session.count(...); canCreateSession lines 120-136; when allowed,
\* createSession goes on to issue findOne (line 186).
Count(c) ==
    /\ call[c].pc = "count"
    /\ LET n == Cardinality(ActiveUnexpired(sessions[call[c].model], call[c].userId, call[c].t))
       IN  call' = [call EXCEPT
                ![c].activeCount = n,
                ![c].allowed = Allowed(n),
                ![c].t = now,
                ![c].model2 = GetSessionModel(call[c].dev),
                ![c].pc = IF Allowed(n)
                          THEN (IF call[c].op = "createSession" THEN "findOne" ELSE "done")
                          ELSE "oldest",
                ![c].result = IF Allowed(n) /\ call[c].op = "canCreateSession"
                              THEN "allowed" ELSE @]
    /\ UNCHANGED <<sessions, nextSid, envVars, syncVars, authVars>>

\* createSession lines 162-183 once canCreateSession has returned allowed=false.
AfterOldestC3Mutant(c, list) ==
    IF list = <<>> THEN "findOne" ELSE "evict"
AfterOldest(c, list) ==
    IF call[c].op = "canCreateSession" THEN "done"
    ELSE IF call[c].forceCreate
         THEN (IF list = <<>> THEN "findOne" ELSE "evict")
         ELSE "done"

\* await Session.findAll({... order createdAt ASC, limit }) in canCreateSession.
Oldest(c) ==
    /\ call[c].pc = "oldest"
    /\ \E list \in OldestSessions(sessions[call[c].model2], call[c].userId, call[c].t,
                                  EvictionLimit(call[c].activeCount)) :
          call' = [call EXCEPT
                ![c].oldest = list,
                ![c].t = now,
                ![c].k = 1,
                ![c].pc = AfterOldest(c, list),
                ![c].result = IF AfterOldest(c, list) = "done"
                              THEN (IF call[c].op = "canCreateSession"
                                    THEN "not_allowed" ELSE "max_sessions_exceeded")
                              ELSE @]
    /\ UNCHANGED <<sessions, nextSid, envVars, syncVars, authVars>>

\* for (const session of sessionsToRemove) await Session.update({isActive:false}, ...)
Evict(c) ==
    /\ call[c].pc = "evict"
    /\ LET S2 == Deactivate(sessions[call[c].model], call[c].oldest[call[c].k].sessionId)
       IN  /\ sessions' = Write(c, S2)
           /\ call' = [call EXCEPT ![c] = Noted(c, S2, [@ EXCEPT
                    !.k = @ + 1,
                    !.t = now,
                    !.pc = IF call[c].k = Len(call[c].oldest) THEN "findOne" ELSE "evict"])]
    /\ UNCHANGED <<nextSid, envVars, syncVars, authVars>>

\* await Session.findOne({ where: { userId, deviceId, isActive: true } })
FindOne(c) ==
    /\ call[c].pc = "findOne"
    /\ LET mine == {r \in sessions[call[c].model] :
                        r.userId = call[c].userId /\ r.deviceId = call[c].dev /\ r.isActive}
       IN  \/ /\ mine = {}
              /\ call' = [call EXCEPT ![c].pc = "create", ![c].t = now, ![c].sid = NoSid]
           \/ \E r \in mine :
                 call' = [call EXCEPT ![c].pc = "update", ![c].t = now, ![c].sid = r.sessionId]
    /\ UNCHANGED <<sessions, nextSid, envVars, syncVars, authVars>>

\* await existingSession.update({ expiresAt, lastActiveAt: new Date() })
Update(c) ==
    /\ call[c].pc = "update"
    /\ LET S2 == UpdateExisting(sessions[call[c].model], call[c].sid, call[c].expiresAt, call[c].t)
       IN  /\ sessions' = Write(c, S2)
           /\ call' = [call EXCEPT ![c] = Noted(c, S2, [@ EXCEPT
                    !.pc = "done", !.result = "updated"])]
    /\ UNCHANGED <<nextSid, envVars, syncVars, authVars>>

\* await Session.create({...})
Create(c) ==
    /\ call[c].pc = "create"
    /\ LET S2 == sessions[call[c].model] \cup
                    {NewSession(nextSid, call[c].userId, call[c].dev, call[c].expiresAt, call[c].t)}
       IN  /\ sessions' = Write(c, S2)
           /\ call' = [call EXCEPT ![c] = Noted(c, S2, [@ EXCEPT
                    !.pc = "done", !.result = "created", !.sid = nextSid])]
    /\ nextSid' = nextSid + 1
    /\ UNCHANGED <<envVars, syncVars, authVars>>

\* validateSession(sessionId): issues findOne.
ValidateSessionCall(d, sid) ==
    [IdleCall EXCEPT !.op = "validateSession", !.pc = "vfind",
        !.sid = sid, !.model = GetSessionModel(d), !.t = now]

StartValidateSession(c, d, sid) ==
    /\ Idle(c)
    /\ call' = [call EXCEPT ![c] = ValidateSessionCall(d, sid)]
    /\ UNCHANGED <<sessions, nextSid, envVars, syncVars, authVars>>

\* await Session.findOne({ where: { sessionId, isActive: true, expiresAt > now } })
ValidateFind(c) ==
    /\ call[c].pc = "vfind"
    /\ LET hit == ValidSessions(sessions[call[c].model], call[c].sid, call[c].t)
       IN  call' = [call EXCEPT
                ![c].t = now,
                ![c].pc = IF hit = {} THEN "done" ELSE "vupdate",
                ![c].result = IF hit = {} THEN "invalid" ELSE @]
    /\ UNCHANGED <<sessions, nextSid, envVars, syncVars, authVars>>

\* await session.update({ lastActiveAt: new Date() }); return true
ValidateTouch(c) ==
    /\ call[c].pc = "vupdate"
    /\ LET S2 == Touch(sessions[call[c].model], call[c].sid, call[c].t)
       IN  /\ sessions' = Write(c, S2)
           /\ call' = [call EXCEPT ![c] = Noted(c, S2, [@ EXCEPT
                    !.pc = "done", !.result = "valid"])]
    /\ UNCHANGED <<nextSid, envVars, syncVars, authVars>>

\* endSession(sessionId): issues Session.update({ isActive: false }, { where: { sessionId } })
StartEndSession(c, d, sid) ==
    /\ Idle(c)
    /\ call' = [call EXCEPT ![c] =
            [IdleCall EXCEPT !.op = "endSession", !.pc = "end",
                !.sid = sid, !.model = GetSessionModel(d), !.t = now]]
    /\ UNCHANGED <<sessions, nextSid, envVars, syncVars, authVars>>

\* endCurrentDeviceSession(userId) and endAllSessions(userId): issue
\* Session.update({ isActive: false }, { where: { userId[, deviceId] } })
StartEndCurrentDeviceSession(c, d, u) ==
    /\ Idle(c)
    /\ call' = [call EXCEPT ![c] =
            [IdleCall EXCEPT !.op = "endCurrentDeviceSession", !.pc = "end",
                !.dev = d, !.userId = u, !.model = GetSessionModel(d), !.t = now]]
    /\ UNCHANGED <<sessions, nextSid, envVars, syncVars, authVars>>

StartEndAllSessions(c, d, u) ==
    /\ Idle(c)
    /\ call' = [call EXCEPT ![c] =
            [IdleCall EXCEPT !.op = "endAllSessions", !.pc = "end",
                !.dev = d, !.userId = u, !.model = GetSessionModel(d), !.t = now]]
    /\ UNCHANGED <<sessions, nextSid, envVars, syncVars, authVars>>

\* await Session.update(...); return result[0] > 0
EndSession(c) ==
    /\ call[c].pc = "end"
    /\ LET S2 == DeactivateWhere(sessions[call[c].model], call[c])
       IN  /\ sessions' = Write(c, S2)
           /\ call' = [call EXCEPT ![c] = Noted(c, S2, [@ EXCEPT
                    !.pc = "done",
                    !.result = EndResult(sessions[call[c].model], call[c])])]
    /\ UNCHANGED <<nextSid, envVars, syncVars, authVars>>

\* The caller has the call's result; the slot is free for the next call.
Return(c) ==
    /\ call[c].op # "none"
    /\ call[c].pc = "done"
    /\ call' = [call EXCEPT ![c] = IdleCall]
    /\ UNCHANGED <<sessions, nextSid, envVars, syncVars, authVars>>

\* The clock advances between any two steps; a call in flight (or not yet
\* returned) notes that it did.
SessTick ==
    /\ now < SessMaxTime
    /\ now' = now + 1
    /\ call' = [c \in Callers |->
                    IF call[c].op = "none" THEN call[c] ELSE [call[c] EXCEPT !.ticked = TRUE]]
    /\ UNCHANGED <<mssqlConnected, monitor, sessions, nextSid, syncVars, authVars>>

SessionStep(c) ==
    \/ Cleanup(c)
    \/ Count(c)
    \/ Oldest(c)
    \/ Evict(c)
    \/ FindOne(c)
    \/ Update(c)
    \/ Create(c)
    \/ ValidateFind(c)
    \/ ValidateTouch(c)
    \/ EndSession(c)
    \/ Return(c)

\* ================================================================ sync service
\* ------------------------------------------------------------------ item rows
\* Item.js: uuid (unique), title, description, completed, priority, and for
\* SQLite syncStatus, syncedAt, isDeleted; timestamps: true adds updatedAt
\* (createdAt is carried along unchanged by every operation and is left out).
Titles == {"a", "b", "c"}

LocalRow(u, title, description, completed, priority, status, syncedAt, updatedAt) ==
    [uuid |-> u, title |-> title, description |-> description, completed |-> completed,
     priority |-> priority, syncStatus |-> status, isDeleted |-> FALSE,
     syncedAt |-> syncedAt, updatedAt |-> updatedAt]

RowsOf(S, u) == {r \in S : r.uuid = u}

\* The updatedAt a write leaves in the row when the caller passed `explicit`
\* and the write was issued at time t.
Stamp(explicit, t) == IF autoUpdatedAt THEN t ELSE explicit

\* findAll without an order: the rows in any order.
Orderings(A) ==
    {f \in [1..Cardinality(A) -> A] : \A i, j \in 1..Cardinality(A) : i # j => f[i] # f[j]}

\* syncItem lines 280-288: itemData
ItemDataC9Mutant(localItem) ==
    [uuid |-> localItem.uuid, title |-> "a", description |-> localItem.description,
     completed |-> localItem.completed, priority |-> localItem.priority,
     updatedAt |-> localItem.updatedAt]
ItemData(localItem) ==
    [uuid |-> localItem.uuid, title |-> localItem.title, description |-> localItem.description,
     completed |-> localItem.completed, priority |-> localItem.priority,
     updatedAt |-> localItem.updatedAt]

\* syncItem line 292: localItem.updatedAt > remoteItem.updatedAt
LocalIsNewer(localItem, remoteItem) == localItem.updatedAt > remoteItem.updatedAt

\* Model.create: one more row (the caller has checked the unique uuid).
InsertRowC10Mutant(S, r) == {r}
InsertRow(S, r) == S \cup {r}

\* remoteItem.update(itemData): by primary key; a row deleted meanwhile stays deleted.
RemoteUpdate(S, data, t) ==
    {IF r.uuid = data.uuid
     THEN [r EXCEPT !.title = data.title, !.description = data.description,
                    !.completed = data.completed, !.priority = data.priority,
                    !.updatedAt = Stamp(data.updatedAt, t)]
     ELSE r : r \in S}

\* MssqlItem.create(itemData)
RemoteRow(data, t) == [data EXCEPT !.updatedAt = Stamp(data.updatedAt, t)]

\* localItem.update({ syncStatus: 'synced', syncedAt: new Date() }): by primary key,
\* only these columns (and updatedAt when the ORM stamps it).
MarkSynced(S, u, t) ==
    {IF r.uuid = u
     THEN [r EXCEPT !.syncStatus = "synced", !.syncedAt = t, !.updatedAt = Stamp(@, t)]
     ELSE r : r \in S}

\* localItem.update({ syncStatus: 'error' })
MarkFailedC12Mutant(S, u, t) == S
MarkFailed(S, u, t) ==
    {IF r.uuid = u
     THEN [r EXCEPT !.syncStatus = "error", !.updatedAt = Stamp(@, t)]
     ELSE r : r \in S}

\* syncFromMssql lines 354-365: SqliteItem.create({... syncStatus: 'synced' ...})
PulledRowC22Mutant(remoteItem, t) ==
    LocalRow(remoteItem.uuid, remoteItem.title, remoteItem.description, remoteItem.completed,
             remoteItem.priority, "pending", t, Stamp(remoteItem.updatedAt, t))
PulledRowC38Mutant(remoteItem, t) ==
    [LocalRow(remoteItem.uuid, remoteItem.title, remoteItem.description, remoteItem.completed,
              remoteItem.priority, "synced", t, Stamp(remoteItem.updatedAt, t))
        EXCEPT !.isDeleted = TRUE]
PulledRow(remoteItem, t) ==
    LocalRow(remoteItem.uuid, remoteItem.title, remoteItem.description, remoteItem.completed,
             remoteItem.priority, "synced", t, Stamp(remoteItem.updatedAt, t))

\* syncFromMssql lines 369-376: localItem.update({ title, ..., syncedAt, updatedAt })
PullOverwrite(S, remoteItem, t) ==
    {IF r.uuid = remoteItem.uuid
     THEN [r EXCEPT !.title = remoteItem.title, !.description = remoteItem.description,
                    !.completed = remoteItem.completed, !.priority = remoteItem.priority,
                    !.syncedAt = t, !.updatedAt = Stamp(remoteItem.updatedAt, t)]
     ELSE r : r \in S}

\* syncFromMssql line 367
PullApplies(localItem, remoteItem) ==
    localItem.syncStatus = "synced" /\ remoteItem.updatedAt > localItem.updatedAt

\* ------------------------------------------------------------- sync records
\* entry: the handler that was invoked ("triggerSync" of main.js, or the IPC
\* channels "sync:trigger", "sync:push", "sync:pull"); pc: the store call the
\* invocation is suspended on; success: the success field of the result it
\* returns.  outcome and touched record what the invocation
\* has done so far: per uuid how the push handled the row, and whether any step
\* of the invocation changed a row of either store.
IdleSync ==
    [entry |-> "none", pc |-> "idle", pendingItems |-> <<>>, remoteList |-> <<>>,
     idx |-> 0, t |-> 0, syncedCount |-> 0, errorCount |-> 0, pulledCount |-> 0,
     pushResult |-> "none", pullResult |-> "none",
     success |-> FALSE, outcome |-> [u \in Uuids |-> "none"], touched |-> FALSE]

SyncIdle(p) == sync[p].entry = "none"
Connected == mssqlConnected[Host]
FullSyncEntries == {"triggerSync", "sync:trigger", "fullSync"}
Cur(p) == sync[p].pendingItems[sync[p].idx]
CurRemote(p) == sync[p].remoteList[sync[p].idx]

\* The stores become L2 and R2; the record notes whether that changed a row.
Touched(rec, L2, R2) ==
    [rec EXCEPT !.touched = @ \/ L2 # localItems \/ R2 # remoteItems]

\* fullSync lines 401-405: success: pushResult.success && pullResult.success;
\* each leg's success is true exactly in its final return (lines 254, 381).
FullSyncSuccessC20Mutant(pushResult, pullResult) == pullResult = "success"
FullSyncSuccess(pushResult, pullResult) ==
    pushResult = "success" /\ pullResult = "success"

\* syncFromMssql returns `result`, to fullSync (which returns in turn) or to
\* the 'sync:pull' handler.
PullReturns(rec, result) ==
    [rec EXCEPT !.pullResult = result, !.pc = "done",
                !.success = IF rec.entry \in FullSyncEntries
                            THEN FullSyncSuccess(rec.pushResult, result)
                            ELSE result = "success"]

\* syncFromMssql lines 329-343 up to the first await.  The models are
\* initialized whenever the connection is up (initializeMssql defines them
\* before it sets mssqlConnected).
StartPullC16Mutant(rec, conn) == [rec EXCEPT !.pc = "pullFindAll", !.t = now]
StartPull(rec, conn) ==
    IF conn
    THEN [rec EXCEPT !.pc = "pullFindAll", !.t = now]
    ELSE PullReturns(rec, "not_connected")

\* syncToMssql has returned `result`: fullSync (lines 396-399) goes on to
\* syncFromMssql whatever the push returned; 'sync:push' returns.
AfterPush(rec, result, conn) ==
    IF rec.entry \in FullSyncEntries
    THEN StartPull([rec EXCEPT !.pushResult = result], conn)
    ELSE [rec EXCEPT !.pushResult = result, !.pc = "done", !.success = (result = "success")]

\* syncToMssql lines 195-229 up to the first await: the guard, the connection
\* check, isSyncing = true, SqliteItem.findAll issued.
EnterPush(rec, flag, conn) ==
    IF flag THEN AfterPush(rec, "already_syncing", conn)
    ELSE IF ~conn THEN [rec EXCEPT !.pc = "connect"]
    ELSE [rec EXCEPT !.pc = "findAll", !.t = now]
EnterFlag(flag, conn) ==
    IF flag THEN TRUE ELSE IF ~conn THEN FALSE ELSE TRUE

\* The store call a row of the batch starts with (lines 235-241).
PushPc(localItem) == IF localItem.isDeleted THEN "remoteDestroy" ELSE "findOne"

\* The for loop of syncToMssql moves on: the next row's first store call is
\* issued, or the batch is over (line 251: isSyncing = false) and the call returns.
Advance(p, rec) ==
    IF rec.idx < Len(rec.pendingItems)
    THEN /\ sync' = [sync EXCEPT ![p] =
                [rec EXCEPT !.idx = @ + 1, !.t = now,
                            !.pc = PushPc(rec.pendingItems[rec.idx + 1])]]
         /\ UNCHANGED isSyncing
    ELSE /\ sync' = [sync EXCEPT ![p] = AfterPush(rec, "success", Connected)]
         /\ isSyncing' = FALSE

\* The for loop of syncFromMssql moves on.
AdvancePull(rec) ==
    IF rec.idx < Len(rec.remoteList)
    THEN [rec EXCEPT !.idx = @ + 1, !.t = now, !.pc = "pullFindOne"]
    ELSE PullReturns(rec, "success")

\* -------------------------------------------------------------- invocations
\* ipcMain.handle('sync:push'): syncService.syncToMssql()
StartSyncPush(p) ==
    /\ SyncIdle(p)
    /\ sync' = [sync EXCEPT ![p] =
            EnterPush([IdleSync EXCEPT !.entry = "sync:push"], isSyncing, Connected)]
    /\ isSyncing' = EnterFlag(isSyncing, Connected)
    /\ UNCHANGED <<envVars, sessVars, itemVars, autoUpdatedAt, authVars>>

\* ipcMain.handle('sync:pull'): syncService.syncFromMssql()
StartSyncPull(p) ==
    /\ SyncIdle(p)
    /\ sync' = [sync EXCEPT ![p] = StartPull([IdleSync EXCEPT !.entry = "sync:pull"], Connected)]
    /\ UNCHANGED <<envVars, sessVars, itemVars, isSyncing, autoUpdatedAt, authVars>>

\* fullSync() of the sync service's exports, invoked as it is.
StartFullSync(p) ==
    /\ SyncIdle(p)
    /\ sync' = [sync EXCEPT ![p] =
            EnterPush([IdleSync EXCEPT !.entry = "fullSync"], isSyncing, Connected)]
    /\ isSyncing' = EnterFlag(isSyncing, Connected)
    /\ UNCHANGED <<envVars, sessVars, itemVars, autoUpdatedAt, authVars>>

\* triggerSync (main.js 92-110) and ipcMain.handle('sync:trigger'): connect
\* first when not connected, then fullSync.
TriggerSync(p, entry) ==
    IF Connected
    THEN /\ sync' = [sync EXCEPT ![p] =
                 EnterPush([IdleSync EXCEPT !.entry = entry], isSyncing, TRUE)]
         /\ isSyncing' = EnterFlag(isSyncing, TRUE)
    ELSE /\ sync' = [sync EXCEPT ![p] = [IdleSync EXCEPT !.entry = entry, !.pc = "wrapperConnect"]]
         /\ UNCHANGED isSyncing

StartTrigger(p, entry) ==
    /\ SyncIdle(p)
    /\ TriggerSync(p, entry)
    /\ UNCHANGED <<envVars, sessVars, itemVars, autoUpdatedAt, authVars>>

\* await connectMssql() in triggerSync / 'sync:trigger': initializeMssql sets
\* mssqlConnected true (line 165) or false (line 170); fullSync runs only when
\* it is true afterwards.
WrapperConnect(p) ==
    /\ sync[p].pc = "wrapperConnect"
    /\ \E ok \in BOOLEAN :
          /\ mssqlConnected' = [mssqlConnected EXCEPT ![Host] = ok]
          /\ IF ok
             THEN /\ sync' = [sync EXCEPT ![p] = EnterPush(@, isSyncing, TRUE)]
                  /\ isSyncing' = EnterFlag(isSyncing, TRUE)
             ELSE /\ sync' = [sync EXCEPT ![p].pc = "done"]
                  /\ UNCHANGED isSyncing
    /\ UNCHANGED <<now, monitor, sessVars, itemVars, autoUpdatedAt, authVars>>

\* The host gains or loses internet connectivity.
NetworkChange ==
    /\ monitor' = [monitor EXCEPT !.isOnline = ~@]
    /\ UNCHANGED <<now, mssqlConnected, sessVars, syncVars, authVars>>

\* checkNetworkStatus (main.js 71-89; every 10 s and once at start), from the
\* moment checkInternetConnectivity resolves: when the status differs from
\* lastOnlineStatus it is stored, and triggerSync() is called (not awaited) when
\* the host is online and lastOnlineStatus was false.
CheckNetworkStatus ==
    /\ LET isOnline == monitor.isOnline
           status == IF isOnline THEN "online" ELSE "offline"
           wasOffline == monitor.lastOnlineStatus = "offline"
       IN  IF monitor.lastOnlineStatus # status
           THEN /\ monitor' = [monitor EXCEPT !.lastOnlineStatus = status]
                /\ IF isOnline /\ wasOffline
                   THEN SyncIdle("timer") /\ TriggerSync("timer", "triggerSync")
                   ELSE UNCHANGED <<sync, isSyncing>>
           ELSE UNCHANGED <<monitor, sync, isSyncing>>
    /\ UNCHANGED <<now, mssqlConnected, sessVars, itemVars, autoUpdatedAt, authVars>>

\* mainWindow.webContents.on('did-finish-load') (main.js 171-175), from the
\* moment checkInternetConnectivity resolves: lastOnlineStatus = isOnline.
DidFinishLoad ==
    /\ monitor' = [monitor EXCEPT
            !.lastOnlineStatus = IF monitor.isOnline THEN "online" ELSE "offline"]
    /\ UNCHANGED <<now, mssqlConnected, sessVars, syncVars, authVars>>

\* await connectMssql() in syncToMssql (line 202); then line 209 sets
\* isSyncing = true without looking at it again.
PushConnect(p) ==
    /\ sync[p].pc = "connect"
    /\ \E ok \in BOOLEAN :
          /\ mssqlConnected' = [mssqlConnected EXCEPT ![Host] = ok]
          /\ IF ok
             THEN /\ sync' = [sync EXCEPT ![p].pc = "findAll", ![p].t = now]
                  /\ isSyncing' = TRUE
             ELSE /\ sync' = [sync EXCEPT ![p] = AfterPush(@, "not_connected", FALSE)]
                  /\ UNCHANGED isSyncing
    /\ UNCHANGED <<now, monitor, sessVars, itemVars, autoUpdatedAt, authVars>>

\* --------------------------------------------------------------------- push
\* await SqliteItem.findAll({ where: { syncStatus: 'pending' } })
PushFindAllC23Mutant(p) ==
    /\ sync[p].pc = "findAll"
    /\ \E list \in Orderings({r \in localItems : r.syncStatus # "error"}) :
          Advance(p, [sync[p] EXCEPT !.pendingItems = list, !.idx = 0])
    /\ UNCHANGED <<envVars, sessVars, itemVars, autoUpdatedAt, authVars>>
PushFindAll(p) ==
    /\ sync[p].pc = "findAll"
    /\ \E list \in Orderings({r \in localItems : r.syncStatus = "pending"}) :
          Advance(p, [sync[p] EXCEPT !.pendingItems = list, !.idx = 0])
    /\ UNCHANGED <<envVars, sessVars, itemVars, autoUpdatedAt, authVars>>

\* syncItem: await MssqlItem.findOne({ where: { uuid } }); lines 290-308 choose
\* the next store call: remoteItem.update, MssqlItem.create, or (remote not
\* older) directly localItem.update({ syncStatus: 'synced' }).
SyncItemFindOne(p) ==
    /\ sync[p].pc = "findOne"
    /\ LET u == Cur(p).uuid
           found == RowsOf(remoteItems, u)
           newer == \E r \in found : LocalIsNewer(Cur(p), r)
       IN  sync' = [sync EXCEPT
                ![p].t = now,
                ![p].pc = IF found = {} THEN "remoteCreate"
                          ELSE IF newer THEN "remoteUpdate" ELSE "markSynced",
                ![p].outcome[u] = IF found # {} /\ ~newer THEN "skipped" ELSE @]
    /\ UNCHANGED <<envVars, sessVars, itemVars, isSyncing, autoUpdatedAt, authVars>>

\* await remoteItem.update(itemData)
SyncItemUpdate(p) ==
    /\ sync[p].pc = "remoteUpdate"
    /\ LET R2 == RemoteUpdate(remoteItems, ItemData(Cur(p)), sync[p].t)
       IN  /\ remoteItems' = R2
           /\ sync' = [sync EXCEPT ![p] = Touched([@ EXCEPT
                    !.pc = "markSynced", !.t = now, !.outcome[Cur(p).uuid] = "updated"],
                    localItems, R2)]
    /\ UNCHANGED <<envVars, sessVars, localItems, issued, isSyncing, autoUpdatedAt, authVars>>

\* await MssqlItem.create(itemData): the unique uuid makes it throw when the row
\* exists by now; the catch of lines 243-248 then issues
\* localItem.update({ syncStatus: 'error' }).
SyncItemCreate(p) ==
    /\ sync[p].pc = "remoteCreate"
    /\ IF RowsOf(remoteItems, Cur(p).uuid) # {}
       THEN /\ sync' = [sync EXCEPT ![p].pc = "markError", ![p].t = now,
                                   ![p].outcome[Cur(p).uuid] = "error"]
            /\ UNCHANGED remoteItems
       ELSE LET R2 == InsertRow(remoteItems, RemoteRow(ItemData(Cur(p)), sync[p].t))
            IN  /\ remoteItems' = R2
                /\ sync' = [sync EXCEPT ![p] = Touched([@ EXCEPT
                        !.pc = "markSynced", !.t = now, !.outcome[Cur(p).uuid] = "created"],
                        localItems, R2)]
    /\ UNCHANGED <<envVars, sessVars, localItems, issued, isSyncing, autoUpdatedAt, authVars>>

\* await localItem.update({ syncStatus: 'synced', syncedAt }); syncedCount++
SyncItemMark(p) ==
    /\ sync[p].pc = "markSynced"
    /\ LET L2 == MarkSynced(localItems, Cur(p).uuid, sync[p].t)
       IN  /\ localItems' = L2
           /\ Advance(p, Touched([sync[p] EXCEPT !.syncedCount = @ + 1], L2, remoteItems))
    /\ UNCHANGED <<envVars, sessVars, remoteItems, issued, autoUpdatedAt, authVars>>

\* syncDeletedItem: await MssqlItem.destroy({ where: { uuid } })
SyncDeletedRemote(p) ==
    /\ sync[p].pc = "remoteDestroy"
    /\ LET R2 == remoteItems \ RowsOf(remoteItems, Cur(p).uuid)
       IN  /\ remoteItems' = R2
           /\ sync' = [sync EXCEPT ![p] = Touched([@ EXCEPT !.pc = "localDestroy", !.t = now],
                                                  localItems, R2)]
    /\ UNCHANGED <<envVars, sessVars, localItems, issued, isSyncing, autoUpdatedAt, authVars>>

\* syncDeletedItem: await localItem.destroy(); syncedCount++
SyncDeletedLocal(p) ==
    /\ sync[p].pc = "localDestroy"
    /\ LET L2 == localItems \ RowsOf(localItems, Cur(p).uuid)
       IN  /\ localItems' = L2
           /\ Advance(p, Touched([sync[p] EXCEPT !.syncedCount = @ + 1,
                                                 !.outcome[Cur(p).uuid] = "destroyed"],
                                 L2, remoteItems))
    /\ UNCHANGED <<envVars, sessVars, remoteItems, issued, autoUpdatedAt, authVars>>

\* A remote write (remoteItem.update, MssqlItem.create, MssqlItem.destroy)
\* rejects: nothing is written, and the catch of lines 243-248 issues
\* localItem.update({ syncStatus: 'error' }).
RemoteWriteThrows(p) ==
    /\ sync[p].pc \in {"remoteUpdate", "remoteCreate", "remoteDestroy"}
    /\ sync' = [sync EXCEPT ![p].pc = "markError", ![p].t = now,
                            ![p].outcome[Cur(p).uuid] = "error"]
    /\ UNCHANGED <<envVars, sessVars, itemVars, isSyncing, autoUpdatedAt, authVars>>

\* A store call of a row's handling other than a remote write rejects (the
\* remote lookup MssqlItem.findOne, localItem.update({ syncStatus: 'synced' }),
\* localItem.destroy()): nothing is written, and the catch of lines 243-248
\* issues localItem.update({ syncStatus: 'error' }).
RowCallThrows(p) ==
    /\ sync[p].pc \in {"findOne", "markSynced", "localDestroy"}
    /\ sync' = [sync EXCEPT ![p].pc = "markError", ![p].t = now,
                            ![p].outcome[Cur(p).uuid] = "error"]
    /\ UNCHANGED <<envVars, sessVars, itemVars, isSyncing, autoUpdatedAt, authVars>>

\* localItem.update({ syncStatus: 'error' }) rejects inside the catch block of
\* lines 243-248: the exception leaves the for loop and reaches the outer catch
\* (lines 263-268): isSyncing = false; return { success: false, reason: 'sync_error' }.
MarkErrorThrowsC35Mutant(p) ==
    /\ sync[p].pc = "markError"
    /\ sync' = [sync EXCEPT ![p] = AfterPush(@, "sync_error", Connected)]
    /\ UNCHANGED <<envVars, sessVars, itemVars, isSyncing, autoUpdatedAt, authVars>>
MarkErrorThrows(p) ==
    /\ sync[p].pc = "markError"
    /\ sync' = [sync EXCEPT ![p] = AfterPush(@, "sync_error", Connected)]
    /\ isSyncing' = FALSE
    /\ UNCHANGED <<envVars, sessVars, itemVars, autoUpdatedAt, authVars>>

\* catch (error): await localItem.update({ syncStatus: 'error' }); errorCount++
MarkError(p) ==
    /\ sync[p].pc = "markError"
    /\ LET L2 == MarkFailed(localItems, Cur(p).uuid, sync[p].t)
       IN  /\ localItems' = L2
           /\ Advance(p, Touched([sync[p] EXCEPT !.errorCount = @ + 1], L2, remoteItems))
    /\ UNCHANGED <<envVars, sessVars, remoteItems, issued, autoUpdatedAt, authVars>>

\* --------------------------------------------------------------------- pull
\* await MssqlItem.findAll(); the first SqliteItem.findOne is issued
PullFindAll(p) ==
    /\ sync[p].pc = "pullFindAll"
    /\ \E list \in Orderings(remoteItems) :
          sync' = [sync EXCEPT ![p] = AdvancePull([@ EXCEPT !.remoteList = list, !.idx = 0])]
    /\ UNCHANGED <<envVars, sessVars, itemVars, isSyncing, autoUpdatedAt, authVars>>

\* await SqliteItem.findOne({ where: { uuid } }); lines 352-378 choose
PullFindOne(p) ==
    /\ sync[p].pc = "pullFindOne"
    /\ LET found == RowsOf(localItems, CurRemote(p).uuid)
       IN  sync' = [sync EXCEPT ![p] =
                IF found = {} THEN [@ EXCEPT !.pc = "pullCreate", !.t = now]
                ELSE IF \E l \in found : PullApplies(l, CurRemote(p))
                     THEN [@ EXCEPT !.pc = "pullUpdate", !.t = now]
                     ELSE AdvancePull(@)]
    /\ UNCHANGED <<envVars, sessVars, itemVars, isSyncing, autoUpdatedAt, authVars>>

\* await SqliteItem.create({...}); pulledCount++.  The unique uuid makes it
\* throw when the row exists by now: the catch of line 383 ends the pull.
PullCreate(p) ==
    /\ sync[p].pc = "pullCreate"
    /\ IF RowsOf(localItems, CurRemote(p).uuid) # {}
       THEN /\ sync' = [sync EXCEPT ![p] = PullReturns(@, "pull_error")]
            /\ UNCHANGED localItems
       ELSE LET L2 == InsertRow(localItems, PulledRow(CurRemote(p), sync[p].t))
            IN  /\ localItems' = L2
                /\ sync' = [sync EXCEPT ![p] =
                        AdvancePull(Touched([@ EXCEPT !.pulledCount = @ + 1], L2, remoteItems))]
    /\ UNCHANGED <<envVars, sessVars, remoteItems, issued, isSyncing, autoUpdatedAt, authVars>>

\* await localItem.update({...}); pulledCount++
PullUpdate(p) ==
    /\ sync[p].pc = "pullUpdate"
    /\ LET L2 == PullOverwrite(localItems, CurRemote(p), sync[p].t)
       IN  /\ localItems' = L2
           /\ sync' = [sync EXCEPT ![p] =
                    AdvancePull(Touched([@ EXCEPT !.pulledCount = @ + 1], L2, remoteItems))]
    /\ UNCHANGED <<envVars, sessVars, remoteItems, issued, isSyncing, autoUpdatedAt, authVars>>

\* The invoker has the result; it may invoke the sync service again.
SyncReturn(p) ==
    /\ sync[p].pc = "done"
    /\ sync' = [sync EXCEPT ![p] = IdleSync]
    /\ UNCHANGED <<envVars, sessVars, itemVars, isSyncing, autoUpdatedAt, authVars>>

\* ------------------------------------------------------ the item controller
\* createItem: Item.create({ title, description: null, priority: 'medium',
\* completed: false, syncStatus: 'pending', isDeleted: false })
CreateItem(u, title) ==
    /\ u \notin issued
    /\ issued' = issued \cup {u}
    /\ localItems' = InsertRow(localItems,
            LocalRow(u, title, "null", FALSE, "medium", "pending", Never, now))
    /\ UNCHANGED <<envVars, sessVars, remoteItems, isSyncing, sync, autoUpdatedAt, authVars>>

\* updateItem(id, { title }): findOne({ id, isDeleted: false }); item.title = title;
\* item.syncStatus = 'pending'; item.save() writes when a column changed.
UpdateItemC28Mutant(u, title) ==
    /\ \E r \in RowsOf(localItems, u) :
          /\ ~r.isDeleted
          /\ LET r2 == [r EXCEPT !.title = title]
             IN  localItems' = (localItems \ {r}) \cup
                                {IF r2 = r THEN r ELSE [r2 EXCEPT !.updatedAt = now]}
    /\ UNCHANGED <<envVars, sessVars, remoteItems, issued, isSyncing, sync, autoUpdatedAt, authVars>>
UpdateItem(u, title) ==
    /\ \E r \in RowsOf(localItems, u) :
          /\ ~r.isDeleted
          /\ LET r2 == [r EXCEPT !.title = title, !.syncStatus = "pending"]
             IN  localItems' = (localItems \ {r}) \cup
                                {IF r2 = r THEN r ELSE [r2 EXCEPT !.updatedAt = now]}
    /\ UNCHANGED <<envVars, sessVars, remoteItems, issued, isSyncing, sync, autoUpdatedAt, authVars>>

\* toggleItemCompleted(id)
ToggleItemCompleted(u) ==
    /\ \E r \in RowsOf(localItems, u) :
          /\ ~r.isDeleted
          /\ localItems' = (localItems \ {r}) \cup
                {[r EXCEPT !.completed = ~@, !.syncStatus = "pending", !.updatedAt = now]}
    /\ UNCHANGED <<envVars, sessVars, remoteItems, issued, isSyncing, sync, autoUpdatedAt, authVars>>

\* deleteItem(id): item.update({ isDeleted: true, syncStatus: 'pending' })
DeleteItem(u) ==
    /\ \E r \in RowsOf(localItems, u) :
          /\ ~r.isDeleted
          /\ localItems' = (localItems \ {r}) \cup
                {[r EXCEPT !.isDeleted = TRUE, !.syncStatus = "pending", !.updatedAt = now]}
    /\ UNCHANGED <<envVars, sessVars, remoteItems, issued, isSyncing, sync, autoUpdatedAt, authVars>>

\* Another installation runs syncItem against the same MSSQL database: it
\* creates the row of an item that was created there,
OtherInstallationCreate(u, title) ==
    /\ u \notin issued
    /\ issued' = issued \cup {u}
    /\ remoteItems' = InsertRow(remoteItems,
            [uuid |-> u, title |-> title, description |-> "null", completed |-> FALSE,
             priority |-> "medium", updatedAt |-> now])
    /\ UNCHANGED <<envVars, sessVars, localItems, isSyncing, sync, autoUpdatedAt, authVars>>

\* Another installation's syncItem overwrites a row it holds a newer copy of.
OtherInstallationUpdate(u, title) ==
    /\ \E r \in RowsOf(remoteItems, u) :
          /\ r.updatedAt < now
          /\ remoteItems' = (remoteItems \ {r}) \cup
                              {[r EXCEPT !.title = title, !.updatedAt = now]}
    /\ UNCHANGED <<envVars, sessVars, localItems, issued, isSyncing, sync, autoUpdatedAt, authVars>>

SyncTick ==
    /\ now < SyncMaxTime
    /\ now' = now + 1
    /\ UNCHANGED <<mssqlConnected, monitor, sessVars, syncVars, authVars>>

\* -------------------------------------------------------- quiescent halves
AuthQuiet ==
    /\ auth = SignedOut
    /\ handler = [h \in Handlers |-> IdleHandler]

SyncQuiet ==
    /\ localItems = {}
    /\ remoteItems = {}
    /\ issued = {}
    /\ isSyncing = FALSE
    /\ sync = [p \in SyncProcs |-> IdleSync]
    /\ autoUpdatedAt = FALSE

SessQuiet ==
    /\ sessions = [s \in Stores |-> {}]
    /\ nextSid = 1
    /\ call = [c \in Callers |-> IdleCall]

\* ------------------------------------------------ one push among local edits
\* The user edits items and pushes ('sync:push'), one push at a time, while
\* another installation writes to the same MSSQL database.
PushInit ==
    /\ now = 0
    /\ mssqlConnected = [d \in Devices |-> TRUE]
    /\ monitor = NotObserved
    /\ localItems = {}
    /\ remoteItems = {}
    /\ issued = {}
    /\ isSyncing = FALSE
    /\ sync = [p \in SyncProcs |-> IdleSync]
    /\ autoUpdatedAt \in BOOLEAN
    /\ SessQuiet
    /\ AuthQuiet

PushNext ==
    \/ CreateItem("i1", "a")
    \/ \E u \in Uuids : UpdateItem(u, "b")
    \/ \E u \in Uuids : ToggleItemCompleted(u)
    \/ \E u \in Uuids : DeleteItem(u)
    \/ OtherInstallationCreate("i2", "c")
    \/ \E u \in Uuids : OtherInstallationUpdate(u, "c")
    \/ StartSyncPush("user")
    \/ PushFindAll("user")
    \/ SyncItemFindOne("user")
    \/ SyncItemUpdate("user")
    \/ SyncItemCreate("user")
    \/ SyncItemMark("user")
    \/ SyncDeletedRemote("user")
    \/ SyncDeletedLocal("user")
    \/ SyncReturn("user")
    \/ SyncTick

PushSpec == PushInit /\ [][PushNext]_vars

\* --------------------------------------- a timer trigger racing a user trigger
\* The connectivity monitor (triggerSync) and the user ('sync:trigger',
\* 'sync:push', 'sync:pull') invoke the sync service independently, within one
\* instant of the clock: no row is newer than another, so neither side's
\* overwrite (remoteItem.update, the pull's localItem.update) is ever chosen.
TriggerInit ==
    /\ now = 0
    /\ mssqlConnected \in {[d \in Devices |-> b] : b \in BOOLEAN}
    /\ monitor = NotObserved
    /\ localItems = {}
    /\ remoteItems = {}
    /\ issued = {}
    /\ isSyncing = FALSE
    /\ sync = [p \in SyncProcs |-> IdleSync]
    /\ autoUpdatedAt \in BOOLEAN
    /\ SessQuiet
    /\ AuthQuiet

TriggerNext ==
    \/ CreateItem("i1", "a")
    \/ \E u \in Uuids : DeleteItem(u)
    \/ OtherInstallationCreate("i2", "c")
    \/ StartTrigger("timer", "triggerSync")
    \/ StartTrigger("user", "sync:trigger")
    \/ StartSyncPush("user")
    \/ StartSyncPull("user")
    \/ \E p \in SyncProcs :
          \/ WrapperConnect(p)
          \/ PushConnect(p)
          \/ PushFindAll(p)
          \/ SyncItemFindOne(p)
          \/ SyncItemCreate(p)
          \/ SyncItemMark(p)
          \/ SyncDeletedRemote(p)
          \/ SyncDeletedLocal(p)
          \/ MarkError(p)
          \/ PullFindAll(p)
          \/ PullFindOne(p)
          \/ PullCreate(p)
          \/ SyncReturn(p)

TriggerSpec == TriggerInit /\ [][TriggerNext]_vars

\* ------------------------------------------ a user pull during the timer's sync
\* The connectivity monitor runs triggerSync (fullSync) while the user invokes
\* 'sync:pull'; MSSQL stays connected, so the isSyncing guard is never bypassed
\* and at most one push is in flight.  One instant of the clock.
PullRaceNext ==
    \/ \E u \in {"i1", "i2"} : CreateItem(u, "a")
    \/ \E u \in Uuids : DeleteItem(u)
    \/ StartTrigger("timer", "triggerSync")
    \/ StartSyncPull("user")
    \/ \E p \in SyncProcs :
          \/ PushFindAll(p)
          \/ SyncItemFindOne(p)
          \/ SyncItemCreate(p)
          \/ SyncItemMark(p)
          \/ SyncDeletedRemote(p)
          \/ SyncDeletedLocal(p)
          \/ PullFindAll(p)
          \/ PullFindOne(p)
          \/ PullCreate(p)
          \/ SyncReturn(p)

PullRaceSpec == PushInit /\ [][PullRaceNext]_vars

\* ------------------------------------------------- batches with failing writes
\* What the two stores can hold of one item when a push starts, at time 1:
\* nothing; a row another installation created; a row created locally and not
\* pushed yet; a pushed row edited since (before or after the remote row's last
\* write); a pushed or an unpushed row deleted locally; a pushed row, as it
\* was pushed or overwritten since by another installation.
RemoteAt(u, title, updatedAt) ==
    [uuid |-> u, title |-> title, description |-> "null", completed |-> FALSE,
     priority |-> "medium", updatedAt |-> updatedAt]
SoftDeleted(r) == [r EXCEPT !.isDeleted = TRUE, !.syncStatus = "pending"]
ItemStates(u) ==
    { <<{}, {}>>,
      <<{}, {RemoteAt(u, "c", 0)}>>,
      <<{LocalRow(u, "a", "null", FALSE, "medium", "pending", Never, 0)}, {}>>,
      <<{LocalRow(u, "b", "null", FALSE, "medium", "pending", 0, 1)}, {RemoteAt(u, "a", 0)}>>,
      <<{LocalRow(u, "b", "null", FALSE, "medium", "pending", 0, 0)}, {RemoteAt(u, "c", 0)}>>,
      <<{SoftDeleted(LocalRow(u, "a", "null", FALSE, "medium", "synced", 0, 1))},
        {RemoteAt(u, "a", 0)}>>,
      <<{SoftDeleted(LocalRow(u, "a", "null", FALSE, "medium", "pending", Never, 1))}, {}>>,
      <<{LocalRow(u, "a", "null", FALSE, "medium", "synced", 0, 0)}, {RemoteAt(u, "a", 0)}>>,
      <<{LocalRow(u, "a", "null", FALSE, "medium", "synced", 0, 0)}, {RemoteAt(u, "c", 1)}>> }

\* The user pushes ('sync:push') again and again, one push at a time, with
\* MSSQL connected and no edits in between; any remote write may fail.
BatchInit ==
    /\ now = 1
    /\ mssqlConnected = [d \in Devices |-> TRUE]
    /\ monitor = NotObserved
    /\ \E st \in [Uuids -> UNION {ItemStates(u) : u \in Uuids}] :
          /\ \A u \in Uuids : st[u] \in ItemStates(u)
          /\ localItems = UNION {st[u][1] : u \in Uuids}
          /\ remoteItems = UNION {st[u][2] : u \in Uuids}
    /\ issued = Uuids
    /\ isSyncing = FALSE
    /\ sync = [p \in SyncProcs |-> IdleSync]
    /\ autoUpdatedAt \in BOOLEAN
    /\ SessQuiet
    /\ AuthQuiet

BatchNext ==
    \/ StartSyncPush("user")
    \/ PushFindAll("user")
    \/ SyncItemFindOne("user")
    \/ SyncItemUpdate("user")
    \/ SyncItemCreate("user")
    \/ SyncItemMark("user")
    \/ SyncDeletedRemote("user")
    \/ SyncDeletedLocal("user")
    \/ RemoteWriteThrows("user")
    \/ MarkError("user")
    \/ SyncReturn("user")

BatchSpec == BatchInit /\ [][BatchNext]_vars

\* ------------------------------------------------ one pull among local edits
\* Item i1 has been pushed; the user edits, toggles and deletes it and pulls
\* ('sync:pull'), one pull at a time, while another installation overwrites
\* the remote row.
PullInit ==
    /\ now = 0
    /\ mssqlConnected = [d \in Devices |-> TRUE]
    /\ monitor = NotObserved
    /\ localItems = {LocalRow("i1", "a", "null", FALSE, "medium", "synced", 0, 0)}
    /\ remoteItems = {RemoteAt("i1", "a", 0)}
    /\ issued = {"i1"}
    /\ isSyncing = FALSE
    /\ sync = [p \in SyncProcs |-> IdleSync]
    /\ autoUpdatedAt \in BOOLEAN
    /\ SessQuiet
    /\ AuthQuiet

PullNext ==
    \/ \E u \in Uuids : UpdateItem(u, "b")
    \/ \E u \in Uuids : ToggleItemCompleted(u)
    \/ \E u \in Uuids : DeleteItem(u)
    \/ \E u \in Uuids : OtherInstallationUpdate(u, "c")
    \/ StartSyncPull("user")
    \/ PullFindAll("user")
    \/ PullFindOne("user")
    \/ PullUpdate("user")
    \/ SyncReturn("user")
    \/ SyncTick

PullSpec == PullInit /\ [][PullNext]_vars

\* -------------------------------------------------- MSSQL unreachable at first
\* The sync service is invoked through each of its entries, one invocation at a
\* time, starting disconnected: every connection attempt may fail or succeed
\* (nothing disconnects afterwards: disconnectMssql has no caller).
OfflineInit ==
    /\ now = 1
    /\ mssqlConnected = [d \in Devices |-> FALSE]
    /\ monitor = NotObserved
    /\ \E st \in [{"i1", "i2"} -> UNION {ItemStates(u) : u \in {"i1", "i2"}}] :
          /\ \A u \in {"i1", "i2"} : st[u] \in ItemStates(u)
          /\ localItems = st["i1"][1] \cup st["i2"][1]
          /\ remoteItems = st["i1"][2] \cup st["i2"][2]
    /\ issued = {"i1", "i2"}
    /\ isSyncing = FALSE
    /\ sync = [p \in SyncProcs |-> IdleSync]
    /\ autoUpdatedAt \in BOOLEAN
    /\ SessQuiet
    /\ AuthQuiet

OfflineNext ==
    \/ StartSyncPush("user")
    \/ StartSyncPull("user")
    \/ StartFullSync("user")
    \/ StartTrigger("user", "sync:trigger")
    \/ WrapperConnect("user")
    \/ PushConnect("user")
    \/ PushFindAll("user")
    \/ SyncItemFindOne("user")
    \/ SyncItemUpdate("user")
    \/ SyncItemCreate("user")
    \/ SyncItemMark("user")
    \/ SyncDeletedRemote("user")
    \/ SyncDeletedLocal("user")
    \/ PullFindAll("user")
    \/ PullFindOne("user")
    \/ PullCreate("user")
    \/ PullUpdate("user")
    \/ SyncReturn("user")

OfflineSpec == OfflineInit /\ [][OfflineNext]_vars

\* ------------------------------------------------- one call at a time
\* tokenResponse.expiresOn: a token still valid when the session is requested.
Expiries == {now + 1, now + 2}
KnownSids == 1..(nextSid - 1)

\* One store (MSSQL, every installation connected) holding another user's
\* session; devices d1 and d2 then sign user u1 in and out, one call at a time.
SerialInit ==
    /\ now = 0
    /\ mssqlConnected = [d \in Devices |-> TRUE]
    /\ monitor = NotObserved
    /\ sessions = [s \in Stores |-> IF s = Mssql THEN {NewSession(1, "u2", "d3", 2, 0)} ELSE {}]
    /\ nextSid = 2
    /\ call = [c \in Callers |-> IdleCall]
    /\ SyncQuiet
    /\ AuthQuiet

SerialDevices == {"d1", "d2"}

SerialNext ==
    \/ \E d \in SerialDevices, e \in Expiries, f \in BOOLEAN :
          StartCreateSession("c1", d, "u1", e, f)
    \/ \E d \in SerialDevices : StartCanCreateSession("c1", d, "u1")
    \/ \E d \in SerialDevices, sid \in KnownSids : StartValidateSession("c1", d, sid)
    \/ \E d \in SerialDevices, sid \in KnownSids : StartEndSession("c1", d, sid)
    \/ SessionStep("c1")
    \/ SessTick

SerialSpec == SerialInit /\ [][SerialNext]_vars

\* One call at a time again, but possibly after a race between d1 and d2 has
\* left user u1 with two active sessions (the state RaceSpec reaches), created
\* in the same instant or one after the other.
AfterRaceInit ==
    /\ now = 0
    /\ mssqlConnected = [d \in Devices |-> TRUE]
    /\ monitor = NotObserved
    /\ \E S \in {{}, {NewSession(1, "u1", "d1", 2, 0), NewSession(2, "u1", "d2", 1, 0)},
                   {NewSession(1, "u1", "d1", 2, 0), NewSession(2, "u1", "d2", 2, -1)}} :
          /\ sessions = [s \in Stores |-> IF s = Mssql THEN S ELSE {}]
          /\ nextSid = Cardinality(S) + 1
    /\ call = [c \in Callers |-> IdleCall]
    /\ SyncQuiet
    /\ AuthQuiet

AfterRaceSpec == AfterRaceInit /\ [][SerialNext]_vars

\* One call at a time, starting after device d1 has signed user u1 in and
\* ended that session (row 1, inactive, not yet garbage-collected); the three
\* ending operations are among the calls.
EndedInit ==
    /\ now = 0
    /\ mssqlConnected = [d \in Devices |-> TRUE]
    /\ monitor = NotObserved
    /\ sessions = [s \in Stores |->
            IF s = Mssql THEN {[NewSession(1, "u1", "d1", 2, 0) EXCEPT !.isActive = FALSE]}
            ELSE {}]
    /\ nextSid = 2
    /\ call = [c \in Callers |-> IdleCall]
    /\ SyncQuiet
    /\ AuthQuiet

EndedNext ==
    \/ SerialNext
    \/ \E d \in SerialDevices : StartEndCurrentDeviceSession("c1", d, "u1")
    \/ \E d \in SerialDevices : StartEndAllSessions("c1", d, "u1")

EndedSpec == EndedInit /\ [][EndedNext]_vars

\* ------------------------------------------- two devices racing for one user
DevOf(c) == IF c = "c1" THEN "d1" ELSE "d2"

RaceInit ==
    /\ now = 0
    /\ mssqlConnected = [d \in Devices |-> TRUE]
    /\ monitor = NotObserved
    /\ \E S \in {{}, {NewSession(1, "u1", "d3", 2, 0)}} :
          sessions = [s \in Stores |-> IF s = Mssql THEN S ELSE {}]
    /\ nextSid = 2
    /\ call = [c \in Callers |-> IdleCall]
    /\ SyncQuiet
    /\ AuthQuiet

RaceNext ==
    \/ \E c \in Callers, f \in BOOLEAN : StartCreateSession(c, DevOf(c), "u1", now + 1, f)
    \/ \E c \in Callers :
          \/ Cleanup(c)
          \/ Count(c)
          \/ Oldest(c)
          \/ Evict(c)
          \/ FindOne(c)
          \/ Update(c)
          \/ Create(c)
          \/ Return(c)
    \/ SessTick

RaceSpec == RaceInit /\ [][RaceNext]_vars

\* ============================================================ auth controller
\* The one account that signs in on the host, and the session-service call slot
\* each authController invocation awaits its sessionService calls in.
Account == "u1"
SlotOf(h) == IF h = "h1" THEN "c1" ELSE "c2"
HandlerIdle(h) == handler[h].op = "none"
Returned(h) == call[SlotOf(h)].op # "none" /\ call[SlotOf(h)].pc = "done"

\* clearLocalSession lines 300-302, before its first await.
ClearedC40Mutant(a) ==
    [a EXCEPT !.cachedAccount = NoUser, !.currentSessionId = NoSid]
Cleared(a) ==
    [a EXCEPT !.authenticatedUser = NoUser, !.cachedAccount = NoUser,
              !.currentSessionId = NoSid]

\* updateSessionExpiry: Session.update({ expiresAt, lastActiveAt },
\* { where: { userId, deviceId, isActive: true } })
UpdateSessionExpiry(S, u, d, e, t) ==
    {IF r.userId = u /\ r.deviceId = d /\ r.isActive
     THEN [r EXCEPT !.expiresAt = e, !.lastActiveAt = t] ELSE r : r \in S}

\* login(): pkceVerifier = verifier; the browser is opened.
Login ==
    /\ auth' = [auth EXCEPT !.pkceVerifier = TRUE]
    /\ UNCHANGED <<handler, envVars, sessVars, syncVars>>

\* handleAuthRedirect(url) with a code in the url, lines 449-467:
\* without a pkceVerifier it reports 'Authentication flow interrupted',
\* otherwise it issues msalClient.acquireTokenByCode.
StartHandleAuthRedirect(h) ==
    /\ HandlerIdle(h)
    /\ handler' = [handler EXCEPT ![h] =
            IF auth.pkceVerifier
            THEN [IdleHandler EXCEPT !.op = "handleAuthRedirect", !.pc = "byCode"]
            ELSE [IdleHandler EXCEPT !.op = "handleAuthRedirect", !.result = "auth:error"]]
    /\ UNCHANGED <<auth, envVars, sessVars, syncVars>>

\* await acquireTokenByCode: it throws (lines 524-528), or MSAL caches the
\* account (the cache plugin saves it to the credential manager) and lines
\* 471-478 run up to canCreateSession's first store call.
RedirectByCode(h) ==
    /\ handler[h].pc = "byCode"
    /\ \/ /\ auth' = [auth EXCEPT !.pkceVerifier = FALSE]
          /\ handler' = [handler EXCEPT ![h].pc = "done", ![h].result = "auth:error"]
          /\ UNCHANGED call
       \/ /\ auth' = [auth EXCEPT !.pkceVerifier = FALSE, !.cachedAccount = Account,
                                  !.accounts = @ \cup {Account}, !.credentials = TRUE]
          /\ handler' = [handler EXCEPT ![h].pc = "canCreate", ![h].expiresOn = now + 1]
          /\ call' = [call EXCEPT ![SlotOf(h)] = CanCreateSessionCall(Host, Account)]
    /\ UNCHANGED <<sessions, nextSid, envVars, syncVars>>

\* canCreateSession has returned (lines 480-498): 'auth:max_sessions', or
\* createSession(userId, userEmail, tokenResponse.expiresOn) is called.
RedirectCanCreateC33Mutant(h) ==
    /\ handler[h].pc = "canCreate"
    /\ Returned(h)
    /\ nextSid + Cardinality(PendingCreates) <= MaxSid
    /\ handler' = [handler EXCEPT ![h].pc = "create"]
    /\ call' = [call EXCEPT ![SlotOf(h)] =
            CreateSessionCall(Host, Account, handler[h].expiresOn, FALSE)]
    /\ UNCHANGED <<auth, sessions, nextSid, envVars, syncVars>>
RedirectCanCreate(h) ==
    /\ handler[h].pc = "canCreate"
    /\ Returned(h)
    /\ IF call[SlotOf(h)].allowed
       THEN /\ nextSid + Cardinality(PendingCreates) <= MaxSid
            /\ handler' = [handler EXCEPT ![h].pc = "create"]
            /\ call' = [call EXCEPT ![SlotOf(h)] =
                    CreateSessionCall(Host, Account, handler[h].expiresOn, FALSE)]
       ELSE /\ handler' = [handler EXCEPT ![h].pc = "done", ![h].result = "auth:max_sessions"]
            /\ call' = [call EXCEPT ![SlotOf(h)] = IdleCall]
    /\ UNCHANGED <<auth, sessions, nextSid, envVars, syncVars>>

\* createSession has returned (lines 500-523): currentSessionId and
\* authenticatedUser are set and 'auth:success' is sent, or 'auth:error'.
RedirectCreate(h) ==
    /\ handler[h].pc = "create"
    /\ Returned(h)
    /\ IF call[SlotOf(h)].result \in {"created", "updated"}
       THEN /\ auth' = [auth EXCEPT !.currentSessionId = call[SlotOf(h)].sid,
                                    !.authenticatedUser = Account]
            /\ handler' = [handler EXCEPT ![h].pc = "done", ![h].result = "auth:success"]
       ELSE /\ handler' = [handler EXCEPT ![h].pc = "done", ![h].result = "auth:error"]
            /\ UNCHANGED auth
    /\ call' = [call EXCEPT ![SlotOf(h)] = IdleCall]
    /\ UNCHANGED <<sessions, nextSid, envVars, syncVars>>

\* getAccessToken lines 400-419 once cachedAccount is known: validateSession
\* when there is a currentSessionId, else acquireTokenSilent.
GatValidate(h, rec) ==
    IF auth.currentSessionId # NoSid
    THEN /\ handler' = [handler EXCEPT ![h] = [rec EXCEPT !.pc = "validate"]]
         /\ call' = [call EXCEPT ![SlotOf(h)] =
                        ValidateSessionCall(Host, auth.currentSessionId)]
    ELSE /\ handler' = [handler EXCEPT ![h] = [rec EXCEPT !.pc = "silent"]]
         /\ UNCHANGED call

\* getAccessToken(), lines 390-402
StartGetAccessToken(h) ==
    /\ HandlerIdle(h)
    /\ IF auth.cachedAccount = NoUser
       THEN /\ handler' = [handler EXCEPT ![h] =
                    [IdleHandler EXCEPT !.op = "getAccessToken", !.pc = "accounts"]]
            /\ UNCHANGED call
       ELSE GatValidate(h, [IdleHandler EXCEPT !.op = "getAccessToken"])
    /\ UNCHANGED <<auth, sessions, nextSid, envVars, syncVars>>

\* await msalClient.getTokenCache().getAllAccounts(), lines 392-397
GatAccounts(h) ==
    /\ handler[h].pc = "accounts"
    /\ IF auth.accounts = {}
       THEN /\ handler' = [handler EXCEPT ![h].pc = "done", ![h].result = "no_user"]
            /\ UNCHANGED <<auth, call>>
       ELSE /\ auth' = [auth EXCEPT !.cachedAccount = Account]
            /\ GatValidate(h, handler[h])
    /\ UNCHANGED <<sessions, nextSid, envVars, syncVars>>

\* validateSession has returned (lines 403-413): when false, clearLocalSession
\* nulls the three variables and issues getAllAccounts.
GatValidated(h) ==
    /\ handler[h].pc = "validate"
    /\ Returned(h)
    /\ IF call[SlotOf(h)].result = "valid"
       THEN /\ handler' = [handler EXCEPT ![h].pc = "silent"]
            /\ UNCHANGED auth
       ELSE /\ handler' = [handler EXCEPT ![h].pc = "clearAccounts"]
            /\ auth' = Cleared(auth)
    /\ call' = [call EXCEPT ![SlotOf(h)] = IdleCall]
    /\ UNCHANGED <<sessions, nextSid, envVars, syncVars>>

\* clearLocalSession line 304: accounts = await getAllAccounts()
ClearAccounts(h) ==
    /\ handler[h].pc = "clearAccounts"
    /\ handler' = [handler EXCEPT ![h].accounts = auth.accounts, ![h].pc = "clearRemove"]
    /\ UNCHANGED <<auth, envVars, sessVars, syncVars>>

\* lines 305-308: removeAccount for each account read, then
\* clearCredentialManager is issued.
ClearRemove(h) ==
    /\ handler[h].pc = "clearRemove"
    /\ auth' = [auth EXCEPT !.accounts = @ \ handler[h].accounts]
    /\ handler' = [handler EXCEPT ![h].pc = "clearCredentials"]
    /\ UNCHANGED <<envVars, sessVars, syncVars>>

\* await clearCredentialManager(); getAccessToken returns requiresLogin,
\* sessionTerminated (lines 406-411), logout success (line 386).
ClearCredentials(h) ==
    /\ handler[h].pc = "clearCredentials"
    /\ auth' = [auth EXCEPT !.credentials = FALSE]
    /\ handler' = [handler EXCEPT ![h].pc = "done",
            ![h].result = IF handler[h].op = "getAccessToken" THEN "sessionTerminated"
                          ELSE IF handler[h].op = "logout" THEN "success" ELSE "cleared"]
    /\ UNCHANGED <<envVars, sessVars, syncVars>>

\* await acquireTokenSilent({ account: cachedAccount }), lines 415-445: it
\* throws InteractionRequiredAuthError or another error (it cannot succeed
\* without the account in the cache), or line 424 reads cachedAccount (a
\* TypeError when it is null by now) and updateSessionExpiry is issued.
GatSilent(h) ==
    /\ handler[h].pc = "silent"
    /\ \/ handler' = [handler EXCEPT ![h].pc = "done", ![h].result = "requiresLogin"]
       \/ handler' = [handler EXCEPT ![h].pc = "done", ![h].result = "error"]
       \/ /\ Account \in auth.accounts
          /\ handler' = [handler EXCEPT ![h] =
                IF auth.cachedAccount = NoUser
                THEN [@ EXCEPT !.pc = "done", !.result = "error"]
                ELSE [@ EXCEPT !.pc = "expiry", !.expiresOn = now + 1]]
    /\ UNCHANGED <<auth, envVars, sessVars, syncVars>>

\* await sessionService.updateSessionExpiry(userId, expiresOn); success
GatExpiry(h) ==
    /\ handler[h].pc = "expiry"
    /\ sessions' = [sessions EXCEPT ![GetSessionModel(Host)] =
            UpdateSessionExpiry(@, Account, Host, handler[h].expiresOn, now)]
    /\ handler' = [handler EXCEPT ![h].pc = "done", ![h].result = "token"]
    /\ UNCHANGED <<auth, nextSid, call, envVars, syncVars>>

\* logout(), lines 356-387, one disjunct for each place it can be resumed at:
\* its start; endSession(currentSessionId) has returned; and
\* endCurrentDeviceSession(userId) has returned.  Lines 363-366 read
\* cachedAccount when they run; lines 368-373 null the four variables and issue
\* getAllAccounts (the removal of the accounts and of the credentials follows
\* as in clearLocalSession).
Logout(h) ==
    LET c == SlotOf(h)
        SignOut(rec) ==
            /\ handler' = [handler EXCEPT ![h] = [rec EXCEPT !.pc = "clearAccounts"]]
            /\ call' = [call EXCEPT ![c] = IdleCall]
            /\ auth' = [Cleared(auth) EXCEPT !.pkceVerifier = FALSE]
        EndDevice(rec) ==
            IF auth.cachedAccount # NoUser
            THEN /\ handler' = [handler EXCEPT ![h] = [rec EXCEPT !.pc = "endDevice"]]
                 /\ call' = [call EXCEPT ![c] =
                        [IdleCall EXCEPT !.op = "endCurrentDeviceSession", !.pc = "end",
                            !.dev = Host, !.userId = auth.cachedAccount,
                            !.model = GetSessionModel(Host), !.t = now]]
                 /\ UNCHANGED auth
            ELSE SignOut(rec)
    IN  /\ \/ /\ HandlerIdle(h)
              /\ IF auth.currentSessionId # NoSid
                 THEN /\ handler' = [handler EXCEPT ![h] =
                            [IdleHandler EXCEPT !.op = "logout", !.pc = "endCurrent",
                                                !.user = auth.cachedAccount]]
                      /\ call' = [call EXCEPT ![c] =
                            [IdleCall EXCEPT !.op = "endSession", !.pc = "end",
                                !.sid = auth.currentSessionId,
                                !.model = GetSessionModel(Host), !.t = now]]
                      /\ UNCHANGED auth
                 ELSE EndDevice([IdleHandler EXCEPT !.op = "logout", !.user = auth.cachedAccount])
           \/ /\ handler[h].pc = "endCurrent"
              /\ Returned(h)
              /\ EndDevice(handler[h])
           \/ /\ handler[h].pc = "endDevice"
              /\ Returned(h)
              /\ SignOut(handler[h])
        /\ UNCHANGED <<sessions, nextSid, envVars, syncVars>>

\* forceLogin(), lines 570-612: its start (acquireTokenSilent is issued unless
\* there is no cachedAccount); acquireTokenSilent has resolved (it throws, or
\* createSession(userId, userEmail, expiresOn, true) is called); createSession
\* has returned (line 593 sets currentSessionId; lines 594-598 read
\* cachedAccount, a TypeError caught at line 609 when it is null by now).
ForceLogin(h) ==
    LET c == SlotOf(h)
    IN  /\ \/ /\ HandlerIdle(h)
              /\ handler' = [handler EXCEPT ![h] =
                    IF auth.cachedAccount = NoUser
                    THEN [IdleHandler EXCEPT !.op = "forceLogin", !.result = "no_user"]
                    ELSE [IdleHandler EXCEPT !.op = "forceLogin", !.pc = "forceSilent"]]
              /\ UNCHANGED <<auth, call>>
           \/ /\ handler[h].pc = "forceSilent"
              /\ \/ /\ handler' = [handler EXCEPT ![h].pc = "done", ![h].result = "error"]
                    /\ UNCHANGED call
                 \/ /\ Account \in auth.accounts
                    /\ nextSid + Cardinality(PendingCreates) <= MaxSid
                    /\ handler' = [handler EXCEPT ![h].pc = "forceCreate"]
                    /\ call' = [call EXCEPT ![c] = CreateSessionCall(Host, Account, now + 1, TRUE)]
              /\ UNCHANGED auth
           \/ /\ handler[h].pc = "forceCreate"
              /\ Returned(h)
              /\ IF call[c].result \in {"created", "updated"}
                 THEN IF auth.cachedAccount # NoUser
                      THEN /\ auth' = [auth EXCEPT !.currentSessionId = call[c].sid,
                                                   !.authenticatedUser = Account]
                           /\ handler' = [handler EXCEPT ![h].pc = "done", ![h].result = "success"]
                      ELSE /\ auth' = [auth EXCEPT !.currentSessionId = call[c].sid]
                           /\ handler' = [handler EXCEPT ![h].pc = "done", ![h].result = "error"]
                 ELSE /\ handler' = [handler EXCEPT ![h].pc = "done", ![h].result = "error"]
                      /\ UNCHANGED auth
              /\ call' = [call EXCEPT ![c] = IdleCall]
        /\ UNCHANGED <<sessions, nextSid, envVars, syncVars>>

\* restoreUserSession(), lines 240-297 (awaited by initialize before the IPC
\* handlers are registered), one disjunct for each await it is resumed at:
\* getAllAccounts, getCurrentDeviceSession, validateSession, canCreateSession,
\* acquireTokenSilent and createSession.
RestoreUserSession(h) ==
    LET c == SlotOf(h)
        SignedIn(sid) == [auth EXCEPT !.currentSessionId = sid, !.authenticatedUser = Account]
    IN  /\ handler[h].op = "restoreUserSession"
        /\ \/ /\ handler[h].pc = "restoreAccounts"
              /\ IF auth.accounts = {}
                 THEN /\ handler' = [handler EXCEPT ![h].pc = "done"]
                      /\ UNCHANGED auth
                 ELSE /\ handler' = [handler EXCEPT ![h].pc = "deviceSession"]
                      /\ auth' = [auth EXCEPT !.cachedAccount = Account]
              /\ UNCHANGED call
           \/ /\ handler[h].pc = "deviceSession"
              /\ LET mine == {r \in ActiveUnexpired(sessions[GetSessionModel(Host)], Account, now) :
                                r.deviceId = Host}
                 IN  \/ /\ mine = {}
                        /\ handler' = [handler EXCEPT ![h].pc = "restoreCanCreate"]
                        /\ call' = [call EXCEPT ![c] = CanCreateSessionCall(Host, Account)]
                     \/ \E r \in mine :
                           /\ handler' = [handler EXCEPT ![h].pc = "restoreValidate"]
                           /\ call' = [call EXCEPT ![c] = ValidateSessionCall(Host, r.sessionId)]
              /\ UNCHANGED auth
           \/ /\ handler[h].pc = "restoreValidate"
              /\ Returned(h)
              /\ IF call[c].result = "valid"
                 THEN /\ auth' = SignedIn(call[c].sid)
                      /\ handler' = [handler EXCEPT ![h].pc = "done", ![h].result = "restored"]
                 ELSE /\ auth' = Cleared(auth)
                      /\ handler' = [handler EXCEPT ![h].pc = "clearAccounts"]
              /\ call' = [call EXCEPT ![c] = IdleCall]
           \/ /\ handler[h].pc = "restoreCanCreate"
              /\ Returned(h)
              /\ IF call[c].allowed
                 THEN /\ handler' = [handler EXCEPT ![h].pc = "restoreSilent"]
                      /\ UNCHANGED auth
                 ELSE /\ auth' = Cleared(auth)
                      /\ handler' = [handler EXCEPT ![h].pc = "clearAccounts"]
              /\ call' = [call EXCEPT ![c] = IdleCall]
           \/ /\ handler[h].pc = "restoreSilent"
              /\ \/ /\ handler' = [handler EXCEPT ![h].pc = "done", ![h].result = "error"]
                    /\ UNCHANGED call
                 \/ /\ Account \in auth.accounts
                    /\ nextSid + Cardinality(PendingCreates) <= MaxSid
                    /\ handler' = [handler EXCEPT ![h].pc = "restoreCreate"]
                    /\ call' = [call EXCEPT ![c] = CreateSessionCall(Host, Account, now + 1, FALSE)]
              /\ UNCHANGED auth
           \/ /\ handler[h].pc = "restoreCreate"
              /\ Returned(h)
              /\ IF call[c].result \in {"created", "updated"}
                 THEN /\ auth' = SignedIn(call[c].sid)
                      /\ handler' = [handler EXCEPT ![h].pc = "done", ![h].result = "restored"]
                 ELSE /\ handler' = [handler EXCEPT ![h].pc = "done"]
                      /\ UNCHANGED auth
              /\ call' = [call EXCEPT ![c] = IdleCall]
        /\ UNCHANGED <<sessions, nextSid, envVars, syncVars>>

\* The renderer has the result; the invoker may call authController again.
AuthReturn(h) ==
    /\ handler[h].op # "none"
    /\ handler[h].pc = "done"
    /\ handler' = [handler EXCEPT ![h] = IdleHandler]
    /\ UNCHANGED <<auth, envVars, sessVars, syncVars>>

\* Another installation ends a session of the account (terminateSession ->
\* endSession there): Session.update({ isActive: false }, { where: { sessionId } })
OtherDeviceEndSession(sid) ==
    /\ \E r \in sessions[Mssql] : r.sessionId = sid /\ r.isActive
    /\ sessions' = [sessions EXCEPT ![Mssql] = Deactivate(@, sid)]
    /\ UNCHANGED <<nextSid, call, envVars, syncVars, authVars>>

\* The session-service steps of the calls the handlers await.
AwaitedStep(c) ==
    \/ Cleanup(c)
    \/ Count(c)
    \/ Oldest(c)
    \/ FindOne(c)
    \/ Create(c)
    \/ ValidateFind(c)
    \/ ValidateTouch(c)

HandlerStep(h) ==
    \/ RedirectByCode(h)
    \/ RedirectCanCreate(h)
    \/ RedirectCreate(h)
    \/ GatAccounts(h)
    \/ GatValidated(h)
    \/ ClearAccounts(h)
    \/ ClearRemove(h)
    \/ ClearCredentials(h)
    \/ GatSilent(h)
    \/ GatExpiry(h)
    \/ AuthReturn(h)

\* The host starts signed out with MSSQL connected; the user signs in (the
\* protocol handler invokes handleAuthRedirect), the renderer asks for access
\* tokens (getAccessToken), and another installation may end the host's
\* session; all within one instant of the clock.
AuthInit ==
    /\ now = 0
    /\ mssqlConnected = [d \in Devices |-> TRUE]
    /\ monitor = NotObserved
    /\ SessQuiet
    /\ SyncQuiet
    /\ AuthQuiet

AuthNext ==
    \/ Login
    \/ StartHandleAuthRedirect("h1")
    \/ StartGetAccessToken("h2")
    \/ \E h \in Handlers : HandlerStep(h)
    \/ \E c \in Callers : AwaitedStep(c)
    \/ \E sid \in KnownSids : OtherDeviceEndSession(sid)

AuthSpec == AuthInit /\ [][AuthNext]_vars

\* ----------------------------------- createSession twice from the same device
\* The host issues createSession for the account from two invocations that may
\* overlap: handleAuthRedirect or restoreUserSession (forceCreate false) and
\* forceLogin (forceCreate true).  Starts as RaceInit does: no session, or
\* another device holding the user's one session.
SameDeviceNext ==
    \/ \E c \in Callers, f \in BOOLEAN : StartCreateSession(c, Host, Account, now + 1, f)
    \/ \E c \in Callers :
          \/ Cleanup(c)
          \/ Count(c)
          \/ Oldest(c)
          \/ Evict(c)
          \/ FindOne(c)
          \/ Update(c)
          \/ Create(c)
          \/ Return(c)
    \/ SessTick

SameDeviceSpec == RaceInit /\ [][SameDeviceNext]_vars

\* ------------------------------------------------------ fullSync, pass after pass
\* Starting from the stores of BatchInit (MSSQL connected), the host runs
\* fullSync again and again, one pass at a time; nobody edits an item, no other
\* installation writes and no store call fails.  Every awaited store call
\* completes and the next pass is eventually started (weak fairness).
ConvergeNext ==
    \/ StartFullSync("user")
    \/ PushFindAll("user")
    \/ SyncItemFindOne("user")
    \/ SyncItemUpdate("user")
    \/ SyncItemCreate("user")
    \/ SyncItemMark("user")
    \/ SyncDeletedRemote("user")
    \/ SyncDeletedLocal("user")
    \/ PullFindAll("user")
    \/ PullFindOne("user")
    \/ PullCreate("user")
    \/ PullUpdate("user")
    \/ SyncReturn("user")

ConvergeSpec == BatchInit /\ [][ConvergeNext]_vars /\ WF_vars(ConvergeNext)

\* ------------------------------------------ edits and failing store calls
\* Items i1 and i2 start in any of the states of ItemStates, MSSQL connected
\* (an item with no row in either store has not been created yet).
\* The user creates, edits, toggles and deletes item i1 and invokes 'sync:push' and
\* 'sync:pull', one invocation at a time; any store call made while the push
\* handles a row may fail, the write that marks the row error included.
FailInit ==
    /\ now = 1
    /\ mssqlConnected = [d \in Devices |-> TRUE]
    /\ monitor = NotObserved
    /\ \E st \in [{"i1", "i2"} -> UNION {ItemStates(u) : u \in {"i1", "i2"}}] :
          /\ \A u \in {"i1", "i2"} : st[u] \in ItemStates(u)
          /\ localItems = st["i1"][1] \cup st["i2"][1]
          /\ remoteItems = st["i1"][2] \cup st["i2"][2]
          /\ issued = IF st["i1"] = <<{}, {}>> THEN {"i2"} ELSE {"i1", "i2"}
    /\ isSyncing = FALSE
    /\ sync = [p \in SyncProcs |-> IdleSync]
    /\ autoUpdatedAt \in BOOLEAN
    /\ SessQuiet
    /\ AuthQuiet

FailNext ==
    \/ CreateItem("i1", "a")
    \/ UpdateItem("i1", "b")
    \/ ToggleItemCompleted("i1")
    \/ DeleteItem("i1")
    \/ StartSyncPush("user")
    \/ StartSyncPull("user")
    \/ PushFindAll("user")
    \/ SyncItemFindOne("user")
    \/ SyncItemUpdate("user")
    \/ SyncItemCreate("user")
    \/ SyncItemMark("user")
    \/ SyncDeletedRemote("user")
    \/ SyncDeletedLocal("user")
    \/ RemoteWriteThrows("user")
    \/ RowCallThrows("user")
    \/ MarkError("user")
    \/ MarkErrorThrows("user")
    \/ PullFindAll("user")
    \/ PullFindOne("user")
    \/ PullCreate("user")
    \/ PullUpdate("user")
    \/ SyncReturn("user")

FailSpec == FailInit /\ [][FailNext]_vars

\* ------------------------------------------------- the host from its start
\* The application starts: initialize awaits restoreUserSession with the MSAL
\* cache empty or holding the account of an earlier run, and with no session of
\* the account, one held by another device, or one held by the host.  After
\* that the user signs in, forces a login or asks for a token (h1) and logs out
\* (h2), and another installation may end a session; MSSQL stays connected, one
\* instant of the clock.
HostInit ==
    /\ now = 0
    /\ mssqlConnected = [d \in Devices |-> TRUE]
    /\ monitor = NotObserved
    /\ SyncQuiet
    /\ auth \in {SignedOut, [SignedOut EXCEPT !.accounts = {Account}, !.credentials = TRUE]}
    /\ handler = [h \in Handlers |->
            IF h = "h1"
            THEN [IdleHandler EXCEPT !.op = "restoreUserSession", !.pc = "restoreAccounts"]
            ELSE IdleHandler]
    /\ call = [c \in Callers |-> IdleCall]
    /\ \E S \in {{}, {NewSession(1, Account, "d2", 1, 0)}, {NewSession(1, Account, Host, 1, 0)}} :
          /\ sessions = [s \in Stores |-> IF s = Mssql THEN S ELSE {}]
          /\ nextSid = Cardinality(S) + 1

HostNext ==
    \/ RestoreUserSession("h1")
    \/ Login
    \/ StartHandleAuthRedirect("h1")
    \/ ForceLogin("h1")
    \/ StartGetAccessToken("h1")
    \/ handler["h1"].op # "restoreUserSession" /\ Logout("h2")
    \/ \E h \in Handlers : HandlerStep(h)
    \/ \E c \in Callers :
          \/ AwaitedStep(c)
          \/ Evict(c)
          \/ EndSession(c)
    \/ \E sid \in KnownSids : OtherDeviceEndSession(sid)

HostSpec == HostInit /\ [][HostNext]_vars

\* ------------------------------------------------ the connectivity monitor
\* The window is created and network monitoring starts; connectivity comes and
\* goes, the page may load again, and the user may trigger a sync by hand.  No
\* items are stored; one instant of the clock.
MonitorInit ==
    /\ now = 0
    /\ mssqlConnected \in {[d \in Devices |-> b] : b \in BOOLEAN}
    /\ monitor \in {[NotObserved EXCEPT !.isOnline = b] : b \in BOOLEAN}
    /\ SessQuiet
    /\ SyncQuiet
    /\ AuthQuiet

MonitorNext ==
    \/ NetworkChange
    \/ CheckNetworkStatus
    \/ DidFinishLoad
    \/ StartTrigger("user", "sync:trigger")
    \/ \E p \in SyncProcs :
          \/ WrapperConnect(p)
          \/ PushFindAll(p)
          \/ PullFindAll(p)
          \/ SyncReturn(p)

MonitorSpec == MonitorInit /\ [][MonitorNext]_vars

\* ---------------------------------------------- pushes that fail and return
\* The timer and the user both push ('sync:push' path of syncToMssql) rows the
\* user created or deleted, MSSQL being connected or still to be connected; any
\* store call of a row's handling may reject, and so may the write that marks
\* the row error.  A store call that was issued resolves or rejects (the ORM's
\* request timeouts), so each step of a push in flight is eventually taken.
PushSteps(p) ==
    \/ PushConnect(p)
    \/ PushFindAll(p)
    \/ SyncItemFindOne(p)
    \/ SyncItemCreate(p)
    \/ SyncItemMark(p)
    \/ SyncDeletedRemote(p)
    \/ SyncDeletedLocal(p)
    \/ RemoteWriteThrows(p)
    \/ RowCallThrows(p)
    \/ MarkError(p)
    \/ MarkErrorThrows(p)

ReturnsNext ==
    \/ CreateItem("i1", "a")
    \/ DeleteItem("i1")
    \/ \E p \in SyncProcs : StartSyncPush(p)
    \/ \E p \in SyncProcs : PushSteps(p)
    \/ \E p \in SyncProcs : SyncReturn(p)

ReturnsSpec ==
    TriggerInit /\ [][ReturnsNext]_vars /\ \A p \in SyncProcs : WF_vars(PushSteps(p))

\* ------------------------------------------- sessions across a reconnection
\* The host creates and validates sessions of one account, one call at a time,
\* while the connectivity monitor and the user trigger syncs whose connectMssql
\* connects the host to MSSQL (or, when two of them race, marks it disconnected
\* again).  No items are stored; one instant of the clock.
ReconnectNext ==
    \/ \E f \in BOOLEAN : StartCreateSession("c1", Host, Account, now + 1, f)
    \/ \E sid \in KnownSids : StartValidateSession("c1", Host, sid)
    \/ Cleanup("c1")
    \/ Count("c1")
    \/ Oldest("c1")
    \/ Evict("c1")
    \/ FindOne("c1")
    \/ Update("c1")
    \/ Create("c1")
    \/ ValidateFind("c1")
    \/ ValidateTouch("c1")
    \/ Return("c1")
    \/ StartTrigger("timer", "triggerSync")
    \/ StartTrigger("user", "sync:trigger")
    \/ \E p \in SyncProcs :
          \/ WrapperConnect(p)
          \/ PushFindAll(p)
          \/ PullFindAll(p)
          \/ SyncReturn(p)

ReconnectSpec == TriggerInit /\ [][ReconnectNext]_vars

\* ------------------------------------------------------------------ claims
ActiveCount(s, u) == Cardinality(ActiveUnexpired(sessions[s], u, now))
Finished(c, op) == call[c].op = op /\ call[c].pc = "done"

\* C1: with one session-service call at a time, no store ever holds more than
\* MAX_CONCURRENT_SESSIONS active, unexpired sessions of one user.
CapRespected ==
    \A s \in Stores, u \in Users : ActiveCount(s, u) <= MAX_CONCURRENT_SESSIONS

\* C1 witness: a forced createSession has evicted a session and created its own,
\* and the user is exactly at the cap.
CapRespectedWitness ==
    \E c \in Callers :
        /\ Finished(c, "createSession")
        /\ call[c].result = "created"
        /\ call[c].evicted # {}
        /\ ActiveCount(call[c].model, call[c].userId) = MAX_CONCURRENT_SESSIONS

\* C2 (as claimed): createSession from a device that already holds an active
\* session of the user succeeds by updating that row in place: same sessionId,
\* the new expiresAt, no session deactivated, no row created.
SameDeviceReloginInPlace ==
    \A c \in Callers :
        (Finished(c, "createSession") /\ call[c].held # NoSid) =>
            /\ call[c].result = "updated"
            /\ call[c].sid = call[c].held
            /\ call[c].evicted = {}
            /\ \E r \in sessions[call[c].model] :
                    /\ r.sessionId = call[c].held
                    /\ r.isActive
                    /\ r.expiresAt = call[c].expiresAt

\* C3: a createSession without forceCreate, for a user at the cap, from a device
\* that holds no active session, returns max_sessions_exceeded with the eviction
\* candidates and has created, changed or deactivated no active session.
RejectedAtCapChangesNothing ==
    \A c \in Callers :
        (/\ Finished(c, "createSession")
         /\ ~call[c].forceCreate
         /\ call[c].activeCount >= MAX_CONCURRENT_SESSIONS
         /\ call[c].held = NoSid) =>
            /\ call[c].result = "max_sessions_exceeded"
            /\ call[c].changed = {}
            /\ call[c].evicted = {}
            /\ Len(call[c].oldest) <= EvictionLimit(call[c].activeCount)
            /\ \A i \in 1..Len(call[c].oldest) :
                    \E r \in sessions[call[c].model] :
                        /\ r.sessionId = call[c].oldest[i].sessionId
                        /\ r.userId = call[c].userId
                        /\ r.isActive

\* C3 witness: such a call has returned, carrying a candidate.
RejectedAtCapWitness ==
    \E c \in Callers :
        /\ Finished(c, "createSession")
        /\ ~call[c].forceCreate
        /\ call[c].held = NoSid
        /\ call[c].result = "max_sessions_exceeded"
        /\ call[c].oldest # <<>>
        /\ ActiveCount(call[c].model, call[c].userId) = MAX_CONCURRENT_SESSIONS

RaceExceedsByAtMostOne ==
    \A s \in Stores, u \in Users : ActiveCount(s, u) <= MAX_CONCURRENT_SESSIONS + 1

\* C5 witness: the race has put the user one session over the cap.
RaceExceedsByOneWitness ==
    \E u \in Users : ActiveCount(Mssql, u) = MAX_CONCURRENT_SESSIONS + 1

\* ------------------------------------------------------------ sync claims
\* The invocations past the in-flight guard of syncToMssql (isSyncing = true
\* executed, the batch not yet over).
PushPcs == {"findAll", "findOne", "remoteUpdate", "remoteCreate", "markSynced",
            "remoteDestroy", "localDestroy", "markError"}
InFlight == {p \in SyncProcs : sync[p].pc \in PushPcs}

\* C6: at most one syncToMssql execution is past the in-flight guard at any
\* time, whatever the interleaving of the timer-driven and the user-driven
\* trigger.
AtMostOnePushInFlight == Cardinality(InFlight) <= 1

\* C7: an invocation whose push was rejected as already in progress has changed
\* no row of either store, in the push leg or (fullSync) in the pull leg.
RejectedSyncDoesNoWork ==
    \A p \in SyncProcs : sync[p].pushResult = "already_syncing" => ~sync[p].touched

\* C8: while a push is running, a row it found pending, not deleted, with a
\* remote counterpart at least as new, still has syncStatus pending.
NewerRemoteKeepsPending ==
    \A p \in SyncProcs : \A u \in Uuids :
        sync[p].outcome[u] = "skipped" =>
            \A l \in RowsOf(localItems, u) : l.syncStatus = "pending"

\* The step of invocation p that executes the store call it is suspended on at pc.
Executes(p, pc) == sync[p].pc = pc /\ sync'[p] # sync[p]

SameContent(a, b) ==
    /\ a.title = b.title
    /\ a.description = b.description
    /\ a.completed = b.completed
    /\ a.priority = b.priority

\* C9: when the push finds, for the pending non-deleted row it read, a remote
\* row with strictly older updatedAt, it goes on to overwrite that row: the
\* write gives the remote row the title, description, completed and priority the
\* push read from the local row and changes no other remote row; the push then
\* marks the local row synced, with syncedAt the time the write was issued.
OlderRemoteOverwritten ==
    [][\A p \in SyncProcs :
        /\ (Executes(p, "findOne") /\ \E r \in RowsOf(remoteItems, Cur(p).uuid) :
                                            r.updatedAt < Cur(p).updatedAt)
                => sync'[p].pc = "remoteUpdate"
        /\ Executes(p, "remoteUpdate")
                => /\ \A r \in RowsOf(remoteItems', Cur(p).uuid) : SameContent(r, Cur(p))
                   /\ \A r \in remoteItems : r.uuid # Cur(p).uuid => r \in remoteItems'
                   /\ Cardinality(remoteItems') = Cardinality(remoteItems)
                   /\ sync'[p].pc = "markSynced"
        /\ (Executes(p, "markSynced") /\ sync[p].outcome[Cur(p).uuid] = "updated")
                => \A l \in RowsOf(localItems', Cur(p).uuid) :
                        l.syncStatus = "synced" /\ l.syncedAt = sync[p].t
      ]_vars

\* A push has overwritten an older remote row with different content and marked
\* the local row synced.
OlderRemoteOverwrittenWitness ==
    \E p \in SyncProcs : \E u \in Uuids :
        /\ sync[p].pc = "done"
        /\ sync[p].outcome[u] = "updated"
        /\ \E l \in RowsOf(localItems, u) : \E r \in RowsOf(remoteItems, u) :
              /\ l.syncStatus = "synced" /\ l.syncedAt # Never
              /\ SameContent(l, r)
              /\ l.title = "b" /\ l.completed

\* C10: when the push finds no remote row for the pending non-deleted row it
\* read, it goes on to create one: the create adds exactly one remote row, with
\* that uuid and the title, description, completed and priority the push read
\* from the local row, and changes no other remote row; the push then marks the
\* local row synced.
AbsentRemoteCreated ==
    [][\A p \in SyncProcs :
        /\ (Executes(p, "findOne") /\ RowsOf(remoteItems, Cur(p).uuid) = {})
                => sync'[p].pc = "remoteCreate"
        /\ (Executes(p, "remoteCreate") /\ RowsOf(remoteItems, Cur(p).uuid) = {})
                => /\ \E r \in remoteItems' :
                        /\ r.uuid = Cur(p).uuid
                        /\ SameContent(r, Cur(p))
                        /\ remoteItems' = remoteItems \cup {r}
                   /\ Cardinality(remoteItems') = Cardinality(remoteItems) + 1
                   /\ sync'[p].pc = "markSynced"
        /\ (Executes(p, "markSynced") /\ sync[p].outcome[Cur(p).uuid] = "created")
                => \A l \in RowsOf(localItems', Cur(p).uuid) :
                        l.syncStatus = "synced" /\ l.syncedAt = sync[p].t
      ]_vars

\* A push has created the remote row of a local item next to another remote
\* row, and marked the local row synced.
AbsentRemoteCreatedWitness ==
    \E p \in SyncProcs : \E u \in Uuids :
        /\ sync[p].pc = "done"
        /\ sync[p].outcome[u] = "created"
        /\ Cardinality(remoteItems) = 2
        /\ \E l \in RowsOf(localItems, u) : \E r \in RowsOf(remoteItems, u) :
              l.syncStatus = "synced" /\ l.syncedAt # Never /\ SameContent(l, r)

\* C11: a soft-deleted pending row that a push has handled (syncDeletedItem
\* ran to its end for it) exists in neither store, whether or not the remote
\* store held it beforehand, for as long as that push's result stands.
DeletedRowGone ==
    \A p \in SyncProcs, u \in Uuids :
        sync[p].outcome[u] = "destroyed" =>
            RowsOf(localItems, u) = {} /\ RowsOf(remoteItems, u) = {}

\* C14: when a push and a concurrent 'sync:pull' have both finished, a row whose
\* pending deletion the push confirmed is absent from the local store.
ConfirmedDeletionStaysAbsent ==
    \A p, q \in SyncProcs, u \in Uuids :
        /\ sync[p].pc = "done" /\ sync[p].outcome[u] = "destroyed"
        /\ sync[q].pc = "done" /\ sync[q].entry = "sync:pull"
        => RowsOf(localItems, u) = {}

\* The uuids of the batch a push read, and those whose remote write threw.
BatchUuids(p) == {sync[p].pendingItems[i].uuid : i \in 1..Len(sync[p].pendingItems)}
FailedUuids(p) == {u \in BatchUuids(p) : sync[p].outcome[u] = "error"}
PushSucceeded(p) == sync[p].pc = "done" /\ sync[p].pushResult = "success"

\* C12: when exactly one row's remote write threw during a push, the push
\* returns errorCount = 1, that row is marked syncStatus = error, and every
\* other row of the batch was processed normally: it is synced, or (soft-deleted)
\* removed.  Stated for the moment the push returns, with no edit in between.
OneFailureIsolated ==
    \A p \in SyncProcs :
        PushSucceeded(p) /\ Cardinality(FailedUuids(p)) = 1 =>
            /\ sync[p].errorCount = 1
            /\ sync[p].syncedCount = Len(sync[p].pendingItems) - 1
            /\ \A u \in FailedUuids(p) :
                  /\ RowsOf(localItems, u) # {}
                  /\ \A r \in RowsOf(localItems, u) : r.syncStatus = "error"
            /\ \A u \in BatchUuids(p) \ FailedUuids(p) :
                  \/ /\ sync[p].outcome[u] = "destroyed"
                     /\ RowsOf(localItems, u) = {}
                  \/ /\ sync[p].outcome[u] \in {"created", "updated", "skipped"}
                     /\ RowsOf(localItems, u) # {}
                     /\ \A r \in RowsOf(localItems, u) : r.syncStatus = "synced"

\* C12 witness: a batch of three rows whose second row failed, the first and
\* the third being handled after all (one synced, one removed or synced).
OneFailureIsolatedWitness ==
    \E p \in SyncProcs :
        /\ PushSucceeded(p)
        /\ Len(sync[p].pendingItems) = 3
        /\ FailedUuids(p) = {sync[p].pendingItems[2].uuid}
        /\ sync[p].errorCount = 1
        /\ sync[p].syncedCount = 2

\* C15: a push pass retries the rows an earlier pass marked error: every row
\* that is in error when a push returns was in that push's batch.
ErrorRowsRetried ==
    \A p \in SyncProcs :
        PushSucceeded(p) =>
            \A r \in localItems : r.syncStatus = "error" => r.uuid \in BatchUuids(p)

\* C13: a row that is pending at the moment the pull writes it
\* (localItem.update, lines 369-376) keeps its title, description, completed
\* and priority.
PendingNeverOverwritten ==
    [][\A p \in SyncProcs :
          Executes(p, "pullUpdate") =>
              \A r \in RowsOf(localItems, CurRemote(p).uuid) :
                  r.syncStatus = "pending" =>
                      \E r2 \in RowsOf(localItems', r.uuid) : SameContent(r, r2)]_vars

\* C16: while the remote store is unreachable (not connected, and every
\* connection attempt so far has failed), a finished pushPending, pullRemote or
\* fullSync has returned 'not connected' on each leg it ran and has changed no
\* row of either store; the wrappers that connect first have not run fullSync.
UnreachableChangesNothing ==
    \A p \in SyncProcs :
        sync[p].pc = "done" /\ ~Connected =>
            /\ ~sync[p].touched
            /\ sync[p].syncedCount = 0 /\ sync[p].errorCount = 0 /\ sync[p].pulledCount = 0
            /\ sync[p].entry = "sync:push" =>
                  sync[p].pushResult = "not_connected" /\ sync[p].pullResult = "none"
            /\ sync[p].entry = "sync:pull" =>
                  sync[p].pushResult = "none" /\ sync[p].pullResult = "not_connected"
            /\ sync[p].entry = "fullSync" =>
                  sync[p].pushResult = "not_connected" /\ sync[p].pullResult = "not_connected"
            /\ sync[p].entry \in {"triggerSync", "sync:trigger"} =>
                  sync[p].pushResult = "none" /\ sync[p].pullResult = "none"

\* C16 witness: fullSync has returned not connected on both legs while a pending
\* row waits locally and the remote store holds a row the local store lacks.
UnreachableChangesNothingWitness ==
    \E p \in SyncProcs :
        /\ sync[p].pc = "done" /\ ~Connected
        /\ sync[p].entry = "fullSync"
        /\ sync[p].pushResult = "not_connected" /\ sync[p].pullResult = "not_connected"
        /\ \E r \in localItems : r.syncStatus = "pending"
        /\ \E r \in remoteItems : RowsOf(localItems, r.uuid) = {}

PullPcs == {"pullFindAll", "pullFindOne", "pullCreate", "pullUpdate"}

\* C20: fullSync starts its pull leg only after its push leg has returned (a
\* push that returned success has handled every row of its batch by then, and
\* nothing is pulled before), and the success it reports is true exactly when
\* both legs reported success.
PushCompletesBeforePull ==
    \A p \in SyncProcs :
        sync[p].entry \in FullSyncEntries =>
            /\ sync[p].pc \in PullPcs \/ sync[p].pullResult # "none" =>
                  /\ sync[p].pushResult # "none"
                  /\ sync[p].pushResult = "success" =>
                        sync[p].syncedCount + sync[p].errorCount = Len(sync[p].pendingItems)
            /\ sync[p].pushResult = "none" =>
                  sync[p].remoteList = <<>> /\ sync[p].pulledCount = 0
            /\ sync[p].pc = "done" /\ sync[p].pushResult # "none" =>
                  /\ sync[p].pullResult # "none"
                  /\ sync[p].success <=>
                        sync[p].pushResult = "success" /\ sync[p].pullResult = "success"

\* C20 witness: a fullSync whose push was rejected and whose pull pulled a row
\* has reported success = false, while another has pushed, pulled and reported
\* success = true.
PushCompletesBeforePullWitness ==
    \E p, q \in SyncProcs :
        /\ sync[p].entry \in FullSyncEntries /\ sync[p].pc = "done"
        /\ sync[p].pushResult = "already_syncing" /\ sync[p].pullResult = "success"
        /\ sync[p].pulledCount > 0 /\ ~sync[p].success
        /\ sync[q].entry \in FullSyncEntries /\ sync[q].pc = "done"
        /\ sync[q].syncedCount > 0 /\ sync[q].pullResult = "success" /\ sync[q].success

\* C17: a validateSession call that ran within one instant of the clock has
\* returned true if and only if the store it selected holds a row with that
\* sessionId that is active and expires later than the current time.
ValidateIffLive ==
    \A c \in Callers :
        Finished(c, "validateSession") /\ ~call[c].ticked =>
            /\ call[c].result \in {"valid", "invalid"}
            /\ call[c].result = "valid" <=>
                  \E r \in sessions[call[c].model] :
                      r.sessionId = call[c].sid /\ r.isActive /\ r.expiresAt > now

\* C17 witness: a session created earlier has been validated (lastActiveAt
\* refreshed), and the call returned true.
ValidateIffLiveWitness ==
    \E c \in Callers :
        /\ Finished(c, "validateSession") /\ ~call[c].ticked
        /\ call[c].result = "valid"
        /\ \E r \in sessions[call[c].model] :
              r.sessionId = call[c].sid /\ r.createdAt < now /\ r.lastActiveAt = now

\* C18: ending again what device d1 has already ended for user u1 (session 1,
\* d1's sessions of u1, all sessions of u1) reports success and leaves no
\* matching session active, also after the ended row has been garbage-collected.
EndingAgainSucceeds ==
    \A c \in Callers :
        /\ call[c].pc = "done"
        /\ \/ call[c].op = "endSession" /\ call[c].sid = 1
           \/ call[c].op = "endCurrentDeviceSession" /\ call[c].dev = "d1"
           \/ call[c].op = "endAllSessions"
        => /\ call[c].result = "ended"
           /\ \A r \in sessions[call[c].model] : EndMatches(call[c], r) => ~r.isActive

\* C19: whenever getAccessToken has returned requiresLogin/sessionTerminated
\* (it found the current session invalid), currentSessionId and
\* authenticatedUser are null.
TerminatedMeansSignedOut ==
    \A h \in Handlers :
        handler[h].op = "getAccessToken" /\ handler[h].result = "sessionTerminated" =>
            auth.currentSessionId = NoSid /\ auth.authenticatedUser = NoUser

\* C21: no session store holds more than one active row for one (userId,
\* deviceId) pair, whatever the interleaving of the createSession calls the
\* device issues.
OneActiveRowPerDevice ==
    \A s \in Stores, u \in Users, d \in Devices :
        Cardinality({r \in sessions[s] : r.userId = u /\ r.deviceId = d /\ r.isActive}) <= 1

\* C22: when the pull finds no local row for a remote record it read, it goes
\* on to create one: the create adds exactly one local row, with that uuid, the
\* record's title, description, completed and priority, syncStatus synced and
\* isDeleted false, changes no other local row and no remote row, and adds one
\* to pulledCount.
AbsentLocalCreated ==
    [][\A p \in SyncProcs :
        /\ (Executes(p, "pullFindOne") /\ RowsOf(localItems, CurRemote(p).uuid) = {})
                => sync'[p].pc = "pullCreate" /\ UNCHANGED localItems
        /\ (Executes(p, "pullCreate") /\ RowsOf(localItems, CurRemote(p).uuid) = {})
                => /\ \E l \in localItems' :
                        /\ l.uuid = CurRemote(p).uuid
                        /\ SameContent(l, CurRemote(p))
                        /\ l.syncStatus = "synced"
                        /\ ~l.isDeleted
                        /\ localItems' = localItems \cup {l}
                   /\ Cardinality(RowsOf(localItems', CurRemote(p).uuid)) = 1
                   /\ UNCHANGED remoteItems
                   /\ sync'[p].pulledCount = sync[p].pulledCount + 1
      ]_vars

\* C22 witness: a pull has returned after creating the local rows of two remote
\* records; each is synced, not deleted and has its remote record's content.
AbsentLocalCreatedWitness ==
    \E p \in SyncProcs :
        /\ sync[p].pc = "done" /\ sync[p].pullResult = "success"
        /\ sync[p].pulledCount = 2
        /\ sync[p].syncedCount = 0
        /\ \A r \in remoteItems :
              \E l \in RowsOf(localItems, r.uuid) :
                  l.syncStatus = "synced" /\ ~l.isDeleted /\ SameContent(l, r)
        /\ \E l \in localItems : l.title = "c" /\ l.syncedAt = now

\* C23: when the push reads the pending rows and the local store holds none,
\* the push is over with that step: it returns success with syncedCount = 0,
\* errorCount = 0 and totalPending = 0 (an empty batch), and no row of either
\* store has changed.
EmptyPushIsNoOp ==
    [][\A p \in SyncProcs :
        (Executes(p, "findAll") /\ ~\E r \in localItems : r.syncStatus = "pending")
            => /\ sync'[p].pushResult = "success"
               /\ sync'[p].pc \notin PushPcs
               /\ sync'[p].syncedCount = 0
               /\ sync'[p].errorCount = 0
               /\ Len(sync'[p].pendingItems) = 0
               /\ ~sync'[p].touched
               /\ UNCHANGED <<localItems, remoteItems>>
      ]_vars

\* C23 witness: a push has returned an empty result while the local store held
\* rows, one of them in error, and no pending one.
EmptyPushIsNoOpWitness ==
    \E p \in SyncProcs :
        /\ PushSucceeded(p) /\ sync[p].entry = "sync:push"
        /\ sync[p].pendingItems = <<>>
        /\ sync[p].syncedCount = 0 /\ sync[p].errorCount = 0 /\ ~sync[p].touched
        /\ \E r \in localItems : r.syncStatus = "error"
        /\ \E r \in localItems : r.syncStatus = "synced"
        /\ ~\E r \in localItems : r.syncStatus = "pending"

\* C24 (as claimed): a canCreateSession that counted the user at or above the
\* cap returns allowed = false with exactly activeCount - MAX + 1 sessions, the
\* oldest by createdAt in ascending order, and has changed or deactivated no
\* active session.
CandidatesExactly ==
    \A c \in Callers :
        (Finished(c, "canCreateSession") /\ call[c].activeCount >= MAX_CONCURRENT_SESSIONS) =>
            /\ call[c].result = "not_allowed"
            /\ Len(call[c].oldest) = EvictionLimit(call[c].activeCount)
            /\ \A i, j \in 1..Len(call[c].oldest) :
                  i < j => call[c].oldest[i].createdAt <= call[c].oldest[j].createdAt
            /\ call[c].changed = {}
            /\ call[c].evicted = {}

\* C24 (amended): such a call returns allowed = false with at most
\* activeCount - MAX + 1 sessions of the user, distinct and in ascending order
\* of createdAt, and has itself changed or deactivated no active session; when
\* the clock does not advance during the call the list has exactly
\* activeCount - MAX + 1 entries, every one still active and unexpired, and no
\* active unexpired session left out of the list is older than a listed one.
CandidatesAtMost ==
    \A c \in Callers :
        (Finished(c, "canCreateSession") /\ call[c].activeCount >= MAX_CONCURRENT_SESSIONS) =>
            LET n == Len(call[c].oldest)
                listed == {call[c].oldest[i].sessionId : i \in 1..n}
                live == ActiveUnexpired(sessions[call[c].model], call[c].userId, now)
            IN  /\ call[c].result = "not_allowed"
                /\ n <= EvictionLimit(call[c].activeCount)
                /\ Cardinality(listed) = n
                /\ \A i, j \in 1..n :
                      i < j => call[c].oldest[i].createdAt <= call[c].oldest[j].createdAt
                /\ \A i \in 1..n : \E r \in sessions[call[c].model] :
                      /\ r.sessionId = call[c].oldest[i].sessionId
                      /\ r.createdAt = call[c].oldest[i].createdAt
                      /\ r.userId = call[c].userId /\ r.isActive
                /\ call[c].changed = {}
                /\ call[c].evicted = {}
                /\ ~call[c].ticked =>
                      /\ n = EvictionLimit(call[c].activeCount)
                      /\ listed \subseteq {r.sessionId : r \in live}
                      /\ \A r \in live : r.sessionId \notin listed =>
                            \A i \in 1..n : call[c].oldest[i].createdAt <= r.createdAt

\* C24 witness: the call has returned two candidates created at different
\* times, the older one first, and both are still active.
CandidatesWitness ==
    \E c \in Callers :
        /\ Finished(c, "canCreateSession") /\ ~call[c].ticked
        /\ call[c].result = "not_allowed"
        /\ Len(call[c].oldest) = 2
        /\ call[c].oldest[1].createdAt < call[c].oldest[2].createdAt
        /\ Cardinality(ActiveUnexpired(sessions[call[c].model], call[c].userId, now)) = 2

\* Every uuid present in either store has a local row, synced, with the title,
\* description, completed and priority of its remote row.
Converged ==
    \A u \in Uuids :
        RowsOf(localItems, u) \cup RowsOf(remoteItems, u) # {} =>
            /\ RowsOf(localItems, u) # {}
            /\ RowsOf(remoteItems, u) # {}
            /\ \A l \in RowsOf(localItems, u) : \A r \in RowsOf(remoteItems, u) :
                  l.syncStatus = "synced" /\ SameContent(l, r)

\* C25: with no local mutation, no write by another installation and no store
\* failure, repeated fullSync passes eventually leave the two stores converged,
\* and they stay so.
EventuallyConverged == <>[]Converged

\* C26: when a push pass has finished, a row of its batch that is marked synced
\* has the content (title, description, completed, priority, isDeleted) the
\* push read and sent to the remote store: an edit, toggle or delete committed
\* while the push was handling the row has left the row pending.
MutationDuringPushKept ==
    \A p \in SyncProcs :
        PushSucceeded(p) =>
            \A i \in 1..Len(sync[p].pendingItems) :
                \A l \in RowsOf(localItems, sync[p].pendingItems[i].uuid) :
                    l.syncStatus = "synced" =>
                        /\ SameContent(l, sync[p].pendingItems[i])
                        /\ l.isDeleted = sync[p].pendingItems[i].isDeleted

\* C27: an exception raised while the push handles one row does not stop the
\* pass: a push that has returned has returned success, with every row of its
\* batch counted in syncedCount or in errorCount.
RowFailureNeverAbortsPass ==
    \A p \in SyncProcs :
        sync[p].pc = "done" /\ sync[p].entry = "sync:push" =>
            /\ sync[p].pushResult = "success"
            /\ sync[p].syncedCount + sync[p].errorCount = Len(sync[p].pendingItems)

PullOverwritesOnlyOlderSynced ==
    [][\A p \in SyncProcs :
        /\ (Executes(p, "pullFindOne") /\
            \E l \in RowsOf(localItems, CurRemote(p).uuid) :
                \/ l.syncStatus = "error"
                \/ l.syncStatus = "synced" /\ ~(CurRemote(p).updatedAt > l.updatedAt))
                => sync'[p].pc \notin {"pullCreate", "pullUpdate"} /\ UNCHANGED localItems
        /\ Executes(p, "pullUpdate")
                => \A l \in RowsOf(localItems, CurRemote(p).uuid) :
                      /\ l.syncStatus = "synced"
                      /\ CurRemote(p).updatedAt > l.updatedAt
                      /\ \E l2 \in RowsOf(localItems', l.uuid) :
                            SameContent(l2, CurRemote(p)) /\ l2.syncedAt = sync[p].t
      ]_vars

\* C30: a step of validateSession changes nothing but lastActiveAt of the row
\* with the validated sessionId: every other row, every other store, and that
\* row's expiresAt, isActive and other columns are as before; the lookup
\* changes no row, and a validation that returns false has changed none.
ValidateTouchesOnlyLastActive ==
    [][\A c \in Callers :
        (call[c].op = "validateSession" /\ call'[c] # call[c]) =>
            /\ \A s \in Stores : s # call[c].model => sessions'[s] = sessions[s]
            /\ \A r \in sessions[call[c].model] :
                  r.sessionId # call[c].sid => r \in sessions'[call[c].model]
            /\ {[r EXCEPT !.lastActiveAt = 0] : r \in sessions'[call[c].model]} =
               {[r EXCEPT !.lastActiveAt = 0] : r \in sessions[call[c].model]}
            /\ Cardinality(sessions'[call[c].model]) = Cardinality(sessions[call[c].model])
            /\ (call[c].pc = "vfind" \/ call'[c].result = "invalid") => sessions' = sessions
      ]_vars

\* C30 witness: a session created earlier has been validated: its lastActiveAt
\* is the time of the validation, its expiresAt and isActive are as created, and
\* the other user's session is as it was.
ValidateTouchesOnlyLastActiveWitness ==
    \E c \in Callers :
        /\ Finished(c, "validateSession")
        /\ call[c].result = "valid"
        /\ NewSession(1, "u2", "d3", 2, 0) \in sessions[call[c].model]
        /\ \E r \in sessions[call[c].model] :
              /\ r.sessionId = call[c].sid
              /\ r.userId = "u1"
              /\ r.createdAt = 0 /\ r.lastActiveAt = 1 /\ r.expiresAt = 2 /\ r.isActive

\* C31: cleanupExpiredSessions runs at the start of every count, list and
\* validate operation: immediately after canCreateSession (getActiveSessionCount)
\* or validateSession has performed its query, the selected store holds no row
\* that was inactive, or expired, when the operation began.  (One call at a
\* time, so the rows of the store at the query are those at the start; the
\* expired rows are compared with the start time when the clock has not moved.)
CleanupBeforeEveryQuery ==
    [][\A c \in Callers :
          ((\/ call[c].op \in {"canCreateSession", "createSession"} /\ call[c].pc = "count"
            \/ call[c].op = "validateSession" /\ call[c].pc = "vfind")
           /\ call'[c] # call[c])
          => \A r \in sessions'[call[c].model] :
                /\ r.isActive
                /\ (~call[c].ticked => ~(r.expiresAt < call[c].t))]_vars

\* C32: the connectivity monitor invokes triggerSync exactly when an observer
\* of the connectivity (checkNetworkStatus or the did-finish-load handler)
\* moves lastOnlineStatus from offline to online: every such observed
\* transition starts a sync, and the monitor starts a sync at no other time.
SyncOncePerObservedTransition ==
    [][(monitor.lastOnlineStatus = "offline" /\ monitor'.lastOnlineStatus = "online")
        <=> \E p \in SyncProcs :
                sync[p].entry # "triggerSync" /\ sync'[p].entry = "triggerSync"]_vars

LogoutSignsOut ==
    [][\A h \in Handlers :
          (handler[h].op = "logout" /\ handler[h].pc # "done" /\ handler'[h].pc = "done")
          => /\ ~\E r \in sessions'[GetSessionModel(Host)] :
                    r.userId = handler[h].user /\ r.deviceId = Host /\ r.isActive
             /\ auth'.authenticatedUser = NoUser
             /\ auth'.cachedAccount = NoUser
             /\ auth'.currentSessionId = NoSid]_vars

\* C35: every push that has passed the in-flight guard and set the flag
\* eventually returns; whenever a push returns (success, per-row errors, or the
\* batch-level exception) the in-flight flag is false after the return; and the
\* flag is never true while no push is running.
PushAlwaysReturns ==
    /\ \A p \in SyncProcs : (sync[p].pc \in PushPcs) ~> (sync[p].pc \notin PushPcs)
    /\ [][\A p \in SyncProcs :
            (sync[p].pc \in PushPcs /\ sync'[p].pc \notin PushPcs) => ~isSyncing']_vars
    /\ [](InFlight = {} => ~isSyncing)

\* A push has returned through the outer catch (sync_error) after a row failed
\* and the write marking it error failed too, and the flag is false.
PushAlwaysReturnsWitness ==
    \E p \in SyncProcs :
        /\ sync[p].pc = "done"
        /\ sync[p].pushResult = "sync_error"
        /\ \E u \in Uuids : sync[p].outcome[u] = "error"
        /\ ~isSyncing

\* C36: a session that createSession issued on the host and that has not been
\* ended, evicted or expired is found valid by validateSession, whether or not
\* the host connected to or disconnected from MSSQL since it was created.
IssuedSessionStaysValid ==
    [][\A c \in Callers :
          (/\ call[c].op = "validateSession"
           /\ call[c].pc = "vfind"
           /\ call'[c] # call[c]
           /\ \E r \in sessions[Host] \cup sessions[Mssql] :
                 r.sessionId = call[c].sid /\ r.isActive /\ r.expiresAt > call[c].t)
          => call'[c].pc = "vupdate"]_vars

\* C37: within one createSession call every store call goes to the store the
\* call selected when it started: the list of eviction candidates is read
\* from the store that was counted and that the eviction, the same-device
\* lookup and the insertion write to.
OneStorePerCreateSession ==
    \A c \in Callers :
        (call[c].op = "createSession" /\ call[c].pc = "oldest")
        => call[c].model2 = call[c].model

\* C38: a step of a pull (syncFromMssql) removes no local row and changes no
\* row's isDeleted, and it leaves every local row unchanged whose uuid is not
\* in the list the pull read from MSSQL, in particular a synced row that the
\* remote store does not hold.
PullKeepsLocalRows ==
    [][\A p \in SyncProcs :
          (sync[p].pc \in PullPcs /\ sync'[p] # sync[p])
          => /\ \A r \in localItems :
                   \E r2 \in localItems' : r2.uuid = r.uuid /\ r2.isDeleted = r.isDeleted
             /\ \A r2 \in localItems' :
                   r2.isDeleted => \E r \in localItems : r.uuid = r2.uuid /\ r.isDeleted
             /\ \A r \in localItems :
                   (\A i \in 1..Len(sync'[p].remoteList) : sync'[p].remoteList[i].uuid # r.uuid)
                   => r \in localItems']_vars
\* A pull that read a non-empty list has returned, and a synced local row is
\* there whose uuid was neither in that list nor is in the remote store.
PullKeepsLocalRowsWitness ==
    \E p \in SyncProcs :
        /\ sync[p].pc = "done" /\ sync[p].pullResult = "success"
        /\ sync[p].remoteList # <<>>
        /\ \E r \in localItems :
              /\ r.syncStatus = "synced" /\ ~r.isDeleted
              /\ RowsOf(remoteItems, r.uuid) = {}
              /\ \A i \in 1..Len(sync[p].remoteList) : sync[p].remoteList[i].uuid # r.uuid

\* C39: a local row with isDeleted = TRUE is changed or removed only by a step
\* of a push (syncToMssql); every other step (the item controller's operations,
\* a pull) leaves it as it is.
OnlyPushChangesSoftDeleted ==
    [][\A r \in localItems :
          (r.isDeleted /\ r \notin localItems')
          => \E p \in SyncProcs : sync[p].pc \in PushPcs /\ sync'[p] # sync[p]]_vars

\* C40: whenever authenticatedUser is set, currentSessionId is set too, to an
\* id the session registry has issued.
AuthenticatedHasSession ==
    auth.authenticatedUser # NoUser
        => auth.currentSessionId # NoSid /\ auth.currentSessionId \in 1..(nextSid - 1)
\* The host is signed in after a handler has returned.
AuthenticatedHasSessionWitness ==
    /\ auth.authenticatedUser # NoUser
    /\ auth.currentSessionId # NoSid
    /\ \A h \in Handlers : handler[h] = IdleHandler

Spec == SerialSpec
=============================================================================
